---- MODULE Spec2Model ----
(***************************************************************************)
(* Verification model of the temporal signal core of Sentinel:            *)
(*   backend/app/snapshot_storage.py  (snapshot store, as-of, diff)        *)
(*   backend/app/conflict_detector.py (rule-based conflict detection)      *)
(* Python dicts are modelled as insertion-ordered sequences of entries     *)
(* with unique keys; lists are sequences.                                  *)
(***************************************************************************)
EXTENDS Integers, Sequences, FiniteSets, TLC

VARIABLES
    cached_signals,   \* signal_loader._cached_signals: the live signal list
    snapshots,        \* snapshot_storage._snapshots: ordered dict as a sequence of SignalSnapshot
    last,             \* the most recent call and what it returned
    nSnap,            \* number of create_daily_snapshot calls so far
    nEdit,            \* number of changes of the signals table, of signals.json and
                      \* of the database's availability so far
    cd_signals,       \* signal list a caller hands to detect_conflicts, detect_regime
                      \* or calculate_composite_signal
    cd_conflicts,     \* [called, ret]: what detect_conflicts returned for cd_signals
    alerts,           \* alert_storage._alerts: ordered dict as a sequence of Alert
    today,            \* date.today()
    regime_history,   \* the stored regime of each date, as a sequence of [date, regime_type]
    audit_log,        \* audit_log._audit_log: list of AuditLogEntry
    audit_clock,      \* datetime.now() of the latest log_change, in ticks
    nLogged,          \* number of log_change calls so far
    writer,           \* a create_daily_snapshot call in progress: its locals
    reader,           \* a get_signals_at_date call in progress: its locals
    evaluators,       \* the evaluate_alert calls in progress: their locals
    signals_file,     \* data/signals.json: [exists, signals_data, mtime]
    cached_file_mtime,\* signal_loader._cached_file_mtime
    load_from_db,     \* get_all_signals takes the database branch to its return:
                      \* USE_DATABASE is set and the database session opens
    db_signals        \* the rows of the signals table, as get_all_signals_db(db)
                      \* reads them

vars == <<cached_signals, snapshots, last, nSnap, nEdit, cd_signals, cd_conflicts,
         alerts, today, regime_history, audit_log, audit_clock, nLogged,
         writer, reader, evaluators, signals_file, cached_file_mtime, load_from_db,
         db_signals>>

\* no call in progress
Idle == [pc |-> "idle"]

----------------------------------------------------------------------------
(* Bounds *)

MaxDate == 2          \* calendar dates are 1..MaxDate
MaxSnapshots == 2     \* create_daily_snapshot calls per behaviour
MaxEdits == 1         \* changes of the signals table and of signals.json per behaviour
MaxSignals == 2       \* length of the list handed to detect_conflicts

Dates == 1..MaxDate
SignalIds == {"a", "b"}
Versions == {"v1", "v2"}
Markets == {"WTI Crude Oil", "Gold"}

(* Program constants *)

NoDate == 0           \* an omitted Optional[date] argument (None)
MinMarketSignals == 2 \* a market needs this many signals before any rule applies

Directions == {"Bullish", "Bearish", "Neutral"}
Confidences == {"Low", "Medium", "High"}
ValidityWindows == {"intraday", "daily", "weekly", "structural"}
SignalTypes == {"structural", "tactical"}

----------------------------------------------------------------------------
(* Signals *)

\* models.Signal, restricted to the fields the modelled code reads
Signal(id, ver, mkt, nm, dir, conf, vw, st) ==
    [signal_id |-> id, version |-> ver, market |-> mkt, name |-> nm,
     direction |-> dir, confidence |-> conf,
     validity_window |-> vw, signal_type |-> st]

\* registry.SIGNAL_REGISTRY: the fixed metadata of the signals of the live list
RegistrySignal(id, ver, dir, conf) ==
    IF id = "a"
    THEN Signal(id, ver, "WTI Crude Oil", "RSI", dir, conf, "daily", "tactical")
    ELSE Signal(id, ver, "Gold", "USD Trend", dir, conf, "weekly", "structural")

\* models.SignalSnapshot
SignalSnapshot(sig, d) ==
    [signal_id |-> sig.signal_id, snapshot_date |-> d, signal |-> sig]

Range(s) == {s[i] : i \in 1..Len(s)}

IdsOf(sigs) == {sigs[i].signal_id : i \in 1..Len(sigs)}

\* list[i] = signal where the list has a signal of that signal_id, else
\* list.append(signal)
Upsert(list, signal) ==
    IF signal.signal_id \in IdsOf(list)
    THEN [i \in 1..Len(list) |->
            IF list[i].signal_id = signal.signal_id THEN signal ELSE list[i]]
    ELSE Append(list, signal)

----------------------------------------------------------------------------
(* signal_loader.py *)

\* Signal.score is None
NoScore == [none |-> TRUE]

\* data/signals.json: whether it exists, the entries it holds and the time of
\* its latest write, which a removed file keeps so that a later write is later
SignalsFile(signals_data, mtime) ==
    [exists |-> TRUE, signals_data |-> signals_data, mtime |-> mtime]

\* signals.json has never been written
NoSignalsFile == [exists |-> FALSE, signals_data |-> << >>, mtime |-> 0]

\* current_mtime: os.path.getmtime(signals_file) if signals_file.exists() else 0
CurrentMtime(file) == IF file.exists THEN file.mtime ELSE 0

\* the exception a call ends with, in the place of its return value; it is no
\* trigger payload
Raised == [raised |-> "FileNotFoundError", triggered |-> FALSE]

\* _load_signals_from_file: [raises, signals]. It raises FileNotFoundError when
\* the file does not exist, and else returns every signal of the file, with
\* last_updated the day of the load and no score
LoadSignalsFromFile(file, day) ==
    IF ~file.exists THEN [raises |-> TRUE, signals |-> << >>]
    ELSE [raises |-> FALSE,
          signals |-> [i \in 1..Len(file.signals_data) |->
                         [file.signals_data[i] EXCEPT !.last_updated = day,
                                                      !.score = NoScore]]]

\* get_all_signals(force_reload) once a list is loaded (_cached_signals is not
\* None), with from_db true when USE_DATABASE is set and the database session
\* opens, and rows what get_all_signals_db(db) reads. The result is
\* [raises, cached, mtime]: _cached_signals and _cached_file_mtime after the
\* call, and whether the call raised; a call that does not raise returns
\* _cached_signals. From the database the cached list is returned, after the
\* rows have been read into it with modification time 0 when force_reload is
\* set. When USE_DATABASE is not set, or the try block fails (lines 118-123),
\* the file is looked at: the cached list is returned when force_reload is not
\* set and the cached modification time is the current one; else
\* _load_signals_from_file is called, and its exception leaves the cached list
\* and the cached modification time as they were
get_all_signals(force_reload, cached, cached_mtime, rows, file, from_db, day) ==
    IF from_db
    THEN [raises |-> FALSE, cached |-> IF force_reload THEN rows ELSE cached,
          mtime |-> IF force_reload THEN 0 ELSE cached_mtime]
    ELSE IF ~force_reload /\ cached_mtime = CurrentMtime(file)
    THEN [raises |-> FALSE, cached |-> cached, mtime |-> cached_mtime]
    ELSE IF LoadSignalsFromFile(file, day).raises
    THEN [raises |-> TRUE, cached |-> cached, mtime |-> cached_mtime]
    ELSE [raises |-> FALSE, cached |-> LoadSignalsFromFile(file, day).signals,
          mtime |-> CurrentMtime(file)]

\* the call get_all_signals() made in the state
SignalsCall ==
    get_all_signals(FALSE, cached_signals, cached_file_mtime, db_signals, signals_file,
                    load_from_db, today)

\* reload_signals(): the call get_all_signals(force_reload=True) made in the state
reload_signals ==
    get_all_signals(TRUE, cached_signals, cached_file_mtime, db_signals, signals_file,
                    load_from_db, today)

\* a call of get_all_signals() in the state raises
ProviderRaises == SignalsCall.raises

\* what a call of get_all_signals() in the state gives its caller: the list
\* returned, or the exception
LiveSignals == IF SignalsCall.raises THEN Raised ELSE SignalsCall.cached

\* the step calls get_all_signals(): the cache of the loader after the call,
\* left as it was when the call raises
GetAllSignals ==
    /\ cached_signals' = SignalsCall.cached
    /\ cached_file_mtime' = SignalsCall.mtime

----------------------------------------------------------------------------
(* snapshot_storage.py *)

SnapKey(snap) == <<snap.signal_id, snap.snapshot_date>>

HasKey(store, key) == \E i \in 1..Len(store) : SnapKey(store[i]) = key

\* a dict assignment that adds a second entry instead of replacing the first
DictSetAdditive(store, snap) == Append(store, snap)

\* _snapshots[snapshot_key] = snapshot
DictSet(store, snap) ==
    IF HasKey(store, SnapKey(snap))
    THEN [i \in 1..Len(store) |->
            IF SnapKey(store[i]) = SnapKey(snap) THEN snap ELSE store[i]]
    ELSE Append(store, snap)

RECURSIVE StoreSnapshots(_, _, _)
\* the loop of create_daily_snapshot: one upsert per live signal, in list order
StoreSnapshots(store, sigs, d) ==
    IF sigs = << >> THEN store
    ELSE StoreSnapshots(DictSet(store, SignalSnapshot(Head(sigs), d)), Tail(sigs), d)

\* the list create_daily_snapshot returns
CreatedSnapshots(sigs, d) == [i \in 1..Len(sigs) |-> SignalSnapshot(sigs[i], d)]

RECURSIVE InsertByDate(_, _)
\* one step of a stable ascending sort on snapshot_date
InsertByDate(sorted, snap) ==
    IF sorted = << >> THEN <<snap>>
    ELSE IF sorted[Len(sorted)].snapshot_date <= snap.snapshot_date
         THEN Append(sorted, snap)
         ELSE Append(InsertByDate(SubSeq(sorted, 1, Len(sorted) - 1), snap),
                     sorted[Len(sorted)])

RECURSIVE SortedByDate(_)
\* sorted(snapshots, key=lambda s: s.snapshot_date)
SortedByDate(s) ==
    IF s = << >> THEN << >>
    ELSE InsertByDate(SortedByDate(SubSeq(s, 1, Len(s) - 1)), s[Len(s)])

\* the filter of get_signal_history with the lower bound exclusive
InHistoryRangeExclusive(snap, q) ==
    /\ snap.signal_id = q[1]
    /\ ~(q[2] # NoDate /\ snap.snapshot_date <= q[2])
    /\ ~(q[3] # NoDate /\ snap.snapshot_date > q[3])

\* the filter of get_signal_history; q = <<signal_id, start_date, end_date>>
InHistoryRange(snap, q) ==
    /\ snap.signal_id = q[1]
    /\ ~(q[2] # NoDate /\ snap.snapshot_date < q[2])
    /\ ~(q[3] # NoDate /\ snap.snapshot_date > q[3])

get_signal_history(store, signal_id, start_date, end_date) ==
    SortedByDate(SelectSeq(store,
        LAMBDA snap : InHistoryRange(snap, <<signal_id, start_date, end_date>>)))

\* position of signal_id in an ordered dict keyed by signal_id, 0 when absent
RECURSIVE IndexOfId(_, _, _)
IndexOfId(entries, id, i) ==
    IF i > Len(entries) THEN 0
    ELSE IF entries[i].signal_id = id THEN i
    ELSE IndexOfId(entries, id, i + 1)

\* d[key] = value on an ordered dict keyed by signal_id
PutById(entries, e) ==
    LET i == IndexOfId(entries, e.signal_id, 1)
    IN IF i = 0 THEN Append(entries, e) ELSE [entries EXCEPT ![i] = e]

RECURSIVE LatestPerSignal(_, _, _)
\* the loop of get_signals_at_date: per signal_id the snapshot with the
\* greatest snapshot_date <= target_date
LatestPerSignal(store, target_date, acc) ==
    IF store = << >> THEN acc
    ELSE LET snap == Head(store)
             i == IndexOfId(acc, snap.signal_id, 1)
             take == /\ snap.snapshot_date <= target_date
                     /\ (i = 0 \/ snap.snapshot_date > acc[i].snapshot_date)
         IN LatestPerSignal(Tail(store), target_date,
                            IF take THEN PutById(acc, snap) ELSE acc)

\* get_signals_at_date that returns only the snapshots of the greatest date <= target_date
get_signals_at_date_one_date(store, live, target_date) ==
    LET upto == SelectSeq(store, LAMBDA snap : snap.snapshot_date <= target_date)
        on_latest == SelectSeq(upto,
                        LAMBDA snap : \A i \in 1..Len(upto) :
                                         upto[i].snapshot_date <= snap.snapshot_date)
    IN IF upto = << >> THEN live
       ELSE [i \in 1..Len(on_latest) |-> on_latest[i].signal]

\* live is the list get_all_signals() returns; it is called, and can raise,
\* only when no snapshot is found
get_signals_at_date(store, live, target_date) ==
    LET signal_snapshots == LatestPerSignal(store, target_date, << >>)
        signals == [i \in 1..Len(signal_snapshots) |-> signal_snapshots[i].signal]
    IN IF signals = << >> THEN live ELSE signals

RECURSIVE CurrentSignals(_, _)
\* current_signals = {s.signal_id: s for s in get_all_signals()}
CurrentSignals(live, acc) ==
    IF live = << >> THEN acc
    ELSE CurrentSignals(Tail(live), PutById(acc, Head(live)))

\* the date test of get_changes_since widened to the snapshots on or before since_date
SnapshotOnOrBefore(snap, since_date) == snap.snapshot_date <= since_date

\* snap_date == since_date
SnapshotOn(snap, since_date) == snap.snapshot_date = since_date

RECURSIVE HistoricalSignals(_, _, _)
\* historical_signals[signal_id] = snapshot.signal for the snapshots dated since_date
HistoricalSignals(store, since_date, acc) ==
    IF store = << >> THEN acc
    ELSE HistoricalSignals(Tail(store), since_date,
            IF SnapshotOn(Head(store), since_date)
            THEN PutById(acc, Head(store).signal) ELSE acc)

Lookup(entries, id) == entries[IndexOfId(entries, id, 1)]

Contains(entries, id) == IndexOfId(entries, id, 1) # 0

\* a membership test that reports every current signal as new
IsNewAlways(sig, historical) == TRUE

\* signal_id not in historical_signals
IsNew(sig, historical) == ~Contains(historical, sig.signal_id)

\* a direction test that also fires on a confidence change
DirectionChangedLoose(sig, historical) ==
    /\ Contains(historical, sig.signal_id)
    /\ \/ sig.direction # Lookup(historical, sig.signal_id).direction
       \/ sig.confidence # Lookup(historical, sig.signal_id).confidence

\* signal_id in historical_signals and current_signal.direction != historical_signal.direction
DirectionChanged(sig, historical) ==
    /\ Contains(historical, sig.signal_id)
    /\ sig.direction # Lookup(historical, sig.signal_id).direction

\* signal_id in historical_signals and current_signal.confidence != historical_signal.confidence
ConfidenceChanged(sig, historical) ==
    /\ Contains(historical, sig.signal_id)
    /\ sig.confidence # Lookup(historical, sig.signal_id).confidence

\* signal_id not in current_signals
IsRemoved(sig, current) == ~Contains(current, sig.signal_id)

NewEntry(sig) ==
    [signal_id |-> sig.signal_id, signal_name |-> sig.name, market |-> sig.market,
     direction |-> sig.direction, confidence |-> sig.confidence]

DirectionEntry(sig, old) ==
    [signal_id |-> sig.signal_id, signal_name |-> sig.name, market |-> sig.market,
     old_direction |-> old.direction, new_direction |-> sig.direction]

ConfidenceEntry(sig, old) ==
    [signal_id |-> sig.signal_id, signal_name |-> sig.name, market |-> sig.market,
     old_confidence |-> old.confidence, new_confidence |-> sig.confidence]

RemovedEntry(old) ==
    [signal_id |-> old.signal_id, signal_name |-> old.name, market |-> old.market]

get_changes_since(store, live, since_date) ==
    LET current == CurrentSignals(live, << >>)
        historical == HistoricalSignals(store, since_date, << >>)
        new == SelectSeq(current, LAMBDA sig : IsNew(sig, historical))
        dir == SelectSeq(current, LAMBDA sig : DirectionChanged(sig, historical))
        conf == SelectSeq(current, LAMBDA sig : ConfidenceChanged(sig, historical))
        removed == SelectSeq(historical, LAMBDA sig : IsRemoved(sig, current))
    IN [new_signals |-> [i \in 1..Len(new) |-> NewEntry(new[i])],
        changed_direction |->
            [i \in 1..Len(dir) |->
                DirectionEntry(dir[i], Lookup(historical, dir[i].signal_id))],
        changed_confidence |->
            [i \in 1..Len(conf) |->
                ConfidenceEntry(conf[i], Lookup(historical, conf[i].signal_id))],
        removed_signals |-> [i \in 1..Len(removed) |-> RemovedEntry(removed[i])]]

----------------------------------------------------------------------------
(* audit_log.py *)

AuditLogLimit == 1000     \* if len(_audit_log) > 1000
TicksPerDay == 2          \* clock ticks in one calendar date

\* AuditLogEntry, restricted to the fields get_audit_log reads; the description
\* is the number of the log_change call
AuditLogEntry(change_type, entity_id, entity_type, description, timestamp) ==
    [change_type |-> change_type, entity_id |-> entity_id, entity_type |-> entity_type,
     description |-> description, timestamp |-> timestamp]

\* e.timestamp.date()
TimestampDate(timestamp) == 1 + (timestamp \div TicksPerDay)

\* AuditLogEntry.to_dict: the same fields, as a dict
ToDict(e) ==
    [change_type |-> e.change_type, entity_id |-> e.entity_id,
     entity_type |-> e.entity_type, description |-> e.description,
     timestamp |-> e.timestamp]

\* _audit_log.append(entry); if len(_audit_log) > 1000: _audit_log.pop(0)
LogAppend(log, entry) ==
    LET appended == Append(log, entry)
    IN IF Len(appended) > AuditLogLimit THEN Tail(appended) ELSE appended

----------------------------------------------------------------------------
(* The snapshot store as a state machine *)

\* a call that returned
Call(op, args, ret) == [op |-> op, args |-> args, ret |-> ret, raised |-> FALSE]

\* a call that ended with the exception of get_all_signals()
Raise(op, args) == [op |-> op, args |-> args, ret |-> Raised, raised |-> TRUE]

\* the call recorded in last returned
Returned(op) == last.op = op /\ ~last.raised

\* the signals of the provider's table; at start-up it holds the first few of them
SeedSignals ==
    << RegistrySignal("a", "v1", "Bullish", "High"),
       RegistrySignal("b", "v1", "Bearish", "Medium") >>

NoConflictCall == [called |-> FALSE, ret |-> << >>]

InitStore ==
    /\ cached_signals \in {SubSeq(SeedSignals, 1, n) : n \in 0..Len(SeedSignals)}
    /\ snapshots = << >>
    /\ last = Call("none", << >>, << >>)
    /\ nSnap = 0
    /\ nEdit = 0
    /\ cd_signals = << >>
    /\ cd_conflicts = NoConflictCall
    /\ alerts = << >>
    /\ today = 1
    /\ regime_history = << >>
    /\ audit_log = << >>
    /\ audit_clock = 0
    /\ nLogged = 0
    /\ writer = Idle
    /\ reader = Idle
    /\ evaluators = << >>
    /\ signals_file = NoSignalsFile
    /\ cached_file_mtime = 0
    /\ load_from_db = TRUE
    /\ db_signals = cached_signals

\* the calls that only read; a behaviour is a history of provider changes and
\* snapshot calls closed by one read, whose result is then examined
ReadOps == {"history", "as_of", "changes_since"}

Observed == last.op \in ReadOps

\* save_signal(db, signal): the row of the signal_id is replaced where it is, a
\* new row goes last; saved is the signal as db_to_signal reads it from the row.
\* The loader keeps its cached list until reload_signals() is called
SaveSignal(saved) ==
    /\ db_signals' = Upsert(db_signals, saved)
    /\ nEdit' = nEdit + 1
    /\ last' = Call("save_signal", <<saved.signal_id>>, << >>)
    /\ UNCHANGED <<cached_signals, snapshots, nSnap, cd_signals, cd_conflicts, alerts, today,
                 regime_history, audit_log, audit_clock, nLogged,
                 writer, reader, evaluators,
                 signals_file, cached_file_mtime, load_from_db>>

\* delete_signal_endpoint(signal_id), ticks after the latest log_change: 404
\* when the table has no row of the signal_id; else the row is deleted and
\* log_change(SIGNAL_DELETED, signal_id, "signal", ...) appends an entry. The
\* loader keeps its cached list until reload_signals() is called
DeleteSignalEndpoint(id, ticks) ==
    /\ id \in IdsOf(db_signals)
    /\ db_signals' = SelectSeq(db_signals, LAMBDA s : s.signal_id # id)
    /\ nLogged' = nLogged + 1
    /\ audit_clock' = audit_clock + ticks
    /\ audit_log' = LogAppend(audit_log,
                              AuditLogEntry("signal_deleted", id, "signal",
                                            nLogged + 1, audit_clock + ticks))
    /\ nEdit' = nEdit + 1
    /\ last' = Call("delete_signal", <<id>>, << >>)
    /\ UNCHANGED <<cached_signals, snapshots, nSnap, cd_signals, cd_conflicts, alerts, today,
                 regime_history, writer, reader, evaluators,
                 signals_file, cached_file_mtime, load_from_db>>

\* reload_signals(): the rows of the database are read into the cached list,
\* or signals.json is, whatever its modification time; when the file is not
\* there the call raises and the cached list stays
ReloadSignals ==
    /\ cached_signals' = reload_signals.cached
    /\ cached_file_mtime' = reload_signals.mtime
    /\ last' = IF reload_signals.raises THEN Raise("reload", << >>)
               ELSE Call("reload", << >>, reload_signals.cached)
    /\ UNCHANGED <<snapshots, nSnap, nEdit, cd_signals, cd_conflicts, alerts, today,
                 regime_history, audit_log, audit_clock, nLogged,
                 writer, reader, evaluators,
                 signals_file, load_from_db, db_signals>>

\* a signal is saved under a new signal_id
AddSignal(id, dir, conf) ==
    /\ id \notin IdsOf(db_signals)
    /\ SaveSignal(RegistrySignal(id, "v1", dir, conf))

\* an existing signal is saved with another direction or confidence, or both
UpdateSignal(id, dir, conf) ==
    \E i \in 1..Len(db_signals) :
        /\ db_signals[i].signal_id = id
        /\ <<dir, conf>> # <<db_signals[i].direction, db_signals[i].confidence>>
        /\ SaveSignal(RegistrySignal(id, db_signals[i].version, dir, conf))

\* an existing signal is saved under another version, direction and confidence kept
ReviseSignal(id, ver) ==
    \E i \in 1..Len(db_signals) :
        /\ db_signals[i].signal_id = id
        /\ ver # db_signals[i].version
        /\ SaveSignal(RegistrySignal(id, ver, db_signals[i].direction,
                                     db_signals[i].confidence))

\* create_daily_snapshot(d): get_all_signals() comes first, and when it raises
\* nothing is stored
CreateDailySnapshot(d) ==
    /\ ~Observed
    /\ nSnap < MaxSnapshots
    /\ GetAllSignals
    /\ IF ProviderRaises
       THEN /\ snapshots' = snapshots
            /\ last' = Raise("snapshot", <<d>>)
       ELSE /\ snapshots' = StoreSnapshots(snapshots, LiveSignals, d)
            /\ last' = Call("snapshot", <<d>>, CreatedSnapshots(LiveSignals, d))
    /\ nSnap' = nSnap + 1
    /\ UNCHANGED <<nEdit, cd_signals, cd_conflicts, alerts, today, regime_history,
                 audit_log, audit_clock, nLogged,
                 writer, reader, evaluators,
                 signals_file, load_from_db,
                 db_signals>>

GetSignalHistory(id, start_date, end_date) ==
    /\ ~Observed
    /\ last' = Call("history", <<id, start_date, end_date>>,
                    get_signal_history(snapshots, id, start_date, end_date))
    /\ UNCHANGED <<cached_signals, snapshots, nSnap, nEdit, cd_signals, cd_conflicts,
                 alerts, today, regime_history,
                 audit_log, audit_clock, nLogged,
                 writer, reader, evaluators,
                 signals_file, cached_file_mtime, load_from_db,
                 db_signals>>

\* get_signals_at_date(d); it calls get_all_signals() only when it has found no
\* snapshot dated d or earlier, and then the exception of that call is its own
GetSignalsAtDate(d) ==
    /\ ~Observed
    /\ IF LatestPerSignal(snapshots, d, << >>) = << >>
       THEN /\ GetAllSignals
            /\ last' = IF ProviderRaises THEN Raise("as_of", <<d>>)
                       ELSE Call("as_of", <<d>>,
                                 get_signals_at_date(snapshots, LiveSignals, d))
       ELSE /\ UNCHANGED <<cached_signals, cached_file_mtime>>
            /\ last' = Call("as_of", <<d>>,
                            get_signals_at_date(snapshots, LiveSignals, d))
    /\ UNCHANGED <<snapshots, nSnap, nEdit, cd_signals, cd_conflicts,
                 alerts, today, regime_history,
                 audit_log, audit_clock, nLogged,
                 writer, reader, evaluators,
                 signals_file, load_from_db,
                 db_signals>>

\* get_changes_since(d): get_all_signals() comes first
GetChangesSince(d) ==
    /\ ~Observed
    /\ GetAllSignals
    /\ last' = IF ProviderRaises THEN Raise("changes_since", <<d>>)
               ELSE Call("changes_since", <<d>>,
                         get_changes_since(snapshots, LiveSignals, d))
    /\ UNCHANGED <<snapshots, nSnap, nEdit, cd_signals, cd_conflicts,
                 alerts, today, regime_history,
                 audit_log, audit_clock, nLogged,
                 writer, reader, evaluators,
                 signals_file, load_from_db,
                 db_signals>>

\* the changes of the database and of signals.json a behaviour makes before
\* its read: at most MaxEdits
ProviderEvent == ~Observed /\ nEdit < MaxEdits

\* the database is what get_all_signals() reads; what happens to the table
\* while it is not read is left out
DatabaseRead == load_from_db

\* the table holds a change the cached list does not show yet
Pending == load_from_db /\ db_signals # cached_signals

\* a change of the table is made once the cached list shows the change before it
RowEvent == ProviderEvent /\ DatabaseRead /\ ~Pending

\* the store is called on a cached list that shows every change of the table:
\* reload_signals() comes between a change and the next call
NextStore ==
    \/ RowEvent /\ \E id \in SignalIds, dir \in Directions, conf \in Confidences :
                       AddSignal(id, dir, conf)
    \/ RowEvent /\ \E id \in SignalIds : DeleteSignalEndpoint(id, 1)
    \/ RowEvent /\ \E id \in SignalIds, dir \in Directions, conf \in Confidences :
                       UpdateSignal(id, dir, conf)
    \/ RowEvent /\ \E id \in SignalIds, ver \in Versions : ReviseSignal(id, ver)
    \/ ~Observed /\ Pending /\ ReloadSignals
    \/ ~Pending /\ \E d \in Dates : CreateDailySnapshot(d)
    \/ ~Pending
          /\ \E id \in SignalIds, s \in {NoDate} \cup Dates, e \in {NoDate} \cup Dates :
                GetSignalHistory(id, s, e)
    \/ ~Pending /\ \E d \in Dates : GetSignalsAtDate(d)
    \/ ~Pending /\ \E d \in Dates : GetChangesSince(d)

Spec == InitStore /\ [][NextStore]_vars

----------------------------------------------------------------------------
(* conflict_detector.py *)

NoneValue == "None"

\* models.Conflict
Conflict(ids, type, description, market, timeframe, structural) ==
    [conflicting_signals |-> ids, conflict_type |-> type, description |-> description,
     market |-> market, timeframe_mismatch |-> timeframe,
     structural_vs_transient |-> structural]

SignalIdList(sigs) == [i \in 1..Len(sigs) |-> sigs[i].signal_id]

\* the markets in alphabetical order, as a dict with sorted keys would give them
MarketOrderSorted(signals, acc) ==
    SelectSeq(<<"Gold", "WTI Crude Oil">>,
              LAMBDA m : \E i \in 1..Len(signals) : signals[i].market = m)

RECURSIVE MarketOrder(_, _)
\* the keys of by_market, in the order in which the markets first appear
MarketOrder(signals, acc) ==
    IF signals = << >> THEN acc
    ELSE MarketOrder(Tail(signals),
            IF \E i \in 1..Len(acc) : acc[i] = Head(signals).market
            THEN acc ELSE Append(acc, Head(signals).market))

\* a grouping that puts every signal under every market
MarketSignalsUngrouped(signals, market) == signals

\* by_market[market]
MarketSignals(signals, market) ==
    SelectSeq(signals, LAMBDA s : s.market = market)

IsBullish(s) == s.direction = "Bullish"

IsBearish(s) == s.direction = "Bearish"

IsHighConfidence(s) == s.confidence = "High"

\* a type test that looks at the validity window instead of the signal type
IsStructuralByWindow(s) == s.validity_window = "structural"

\* s.signal_type == SignalType.STRUCTURAL
IsStructuralType(s) == s.signal_type = "structural"

\* s.signal_type == SignalType.TACTICAL
IsTacticalType(s) == s.signal_type = "tactical"

\* s.validity_window in [ValidityWindow.INTRADAY, ValidityWindow.DAILY]
IsShortTerm(s) == s.validity_window \in {"intraday", "daily"}

\* s.validity_window == ValidityWindow.STRUCTURAL
IsStructuralWindow(s) == s.validity_window = "structural"

\* Rule 1: same market, opposite directions, high confidence
OppositeDirectionRule(market, market_signals) ==
    LET bullish_high ==
            SelectSeq(market_signals, LAMBDA s : IsBullish(s) /\ IsHighConfidence(s))
        bearish_high ==
            SelectSeq(market_signals, LAMBDA s : IsBearish(s) /\ IsHighConfidence(s))
    IN IF Len(market_signals) < MinMarketSignals THEN << >>
       ELSE IF bullish_high # << >> /\ bearish_high # << >>
       THEN << Conflict(SignalIdList(bullish_high \o bearish_high),
                        "opposite_direction",
                        "High confidence signals in " \o market
                            \o " show opposite directions: "
                            \o ToString(Len(bullish_high)) \o " bullish vs "
                            \o ToString(Len(bearish_high)) \o " bearish",
                        market, NoneValue, NoneValue) >>
       ELSE << >>

\* Rule 2 with one conflict for each branch that holds
StructuralTacticalRuleBoth(market, market_signals) ==
    LET structural_bullish ==
            SelectSeq(market_signals, LAMBDA s : IsStructuralType(s) /\ IsBullish(s))
        tactical_bearish ==
            SelectSeq(market_signals, LAMBDA s : IsTacticalType(s) /\ IsBearish(s))
        structural_bearish ==
            SelectSeq(market_signals, LAMBDA s : IsStructuralType(s) /\ IsBearish(s))
        tactical_bullish ==
            SelectSeq(market_signals, LAMBDA s : IsTacticalType(s) /\ IsBullish(s))
        branch(structural, tactical, tension_desc) ==
            IF structural # << >> /\ tactical # << >>
            THEN << Conflict(SignalIdList(structural \o tactical),
                             "structural_tactical_mismatch",
                             "Structural vs tactical mismatch in " \o market \o ": "
                                 \o tension_desc,
                             market, NoneValue, tension_desc) >>
            ELSE << >>
    IN IF Len(market_signals) < MinMarketSignals THEN << >>
       ELSE branch(structural_bullish, tactical_bearish,
                   "Structural bullish forces conflict with tactical bearish signals")
            \o branch(structural_bearish, tactical_bullish,
                      "Structural bearish forces conflict with tactical bullish signals")

\* Rule 2: structural vs tactical mismatch; the first branch that holds names the signals
StructuralTacticalRule(market, market_signals) ==
    LET structural_bullish ==
            SelectSeq(market_signals, LAMBDA s : IsStructuralType(s) /\ IsBullish(s))
        tactical_bearish ==
            SelectSeq(market_signals, LAMBDA s : IsTacticalType(s) /\ IsBearish(s))
        structural_bearish ==
            SelectSeq(market_signals, LAMBDA s : IsStructuralType(s) /\ IsBearish(s))
        tactical_bullish ==
            SelectSeq(market_signals, LAMBDA s : IsTacticalType(s) /\ IsBullish(s))
        first == structural_bullish # << >> /\ tactical_bearish # << >>
        mirror == structural_bearish # << >> /\ tactical_bullish # << >>
        conflicting_ids ==
            IF first THEN SignalIdList(structural_bullish \o tactical_bearish)
            ELSE SignalIdList(structural_bearish \o tactical_bullish)
        tension_desc ==
            IF first
            THEN "Structural bullish forces conflict with tactical bearish signals"
            ELSE "Structural bearish forces conflict with tactical bullish signals"
    IN IF Len(market_signals) < MinMarketSignals THEN << >>
       ELSE IF first \/ mirror
       THEN << Conflict(conflicting_ids, "structural_tactical_mismatch",
                        "Structural vs tactical mismatch in " \o market \o ": "
                            \o tension_desc,
                        market, NoneValue, tension_desc) >>
       ELSE << >>

\* Rule 3: timeframe mismatch between the intraday/daily and the structural signals
TimeframeRule(market, market_signals) ==
    LET short_term == SelectSeq(market_signals, IsShortTerm)
        structural == SelectSeq(market_signals, IsStructuralWindow)
        short_bullish == SelectSeq(short_term, IsBullish)
        short_bearish == SelectSeq(short_term, IsBearish)
        struct_bullish == SelectSeq(structural, IsBullish)
        struct_bearish == SelectSeq(structural, IsBearish)
        first == short_bullish # << >> /\ struct_bearish # << >>
        mirror == short_bearish # << >> /\ struct_bullish # << >>
        mismatch_desc ==
            IF first
            THEN "Short-term bullish signals conflict with structural bearish trend"
            ELSE "Short-term bearish signals conflict with structural bullish trend"
    IN IF Len(market_signals) < MinMarketSignals THEN << >>
       ELSE IF short_term # << >> /\ structural # << >> /\ (first \/ mirror)
       THEN << Conflict(SignalIdList(short_term \o structural), "timeframe_mismatch",
                        "Timeframe mismatch in " \o market \o ": " \o mismatch_desc,
                        market, mismatch_desc, NoneValue) >>
       ELSE << >>

\* the body of one of the three loops over by_market.items()
ApplyRule(rule, market, market_signals) ==
    CASE rule = "opposite_direction" -> OppositeDirectionRule(market, market_signals)
      [] rule = "structural_tactical_mismatch" ->
            StructuralTacticalRule(market, market_signals)
      [] rule = "timeframe_mismatch" -> TimeframeRule(market, market_signals)

RECURSIVE OverMarkets(_, _, _)
\* for market, market_signals in by_market.items(): apply one rule, in key order
OverMarkets(rule, signals, markets) ==
    IF markets = << >> THEN << >>
    ELSE ApplyRule(rule, Head(markets), MarketSignals(signals, Head(markets)))
            \o OverMarkets(rule, signals, Tail(markets))

detect_conflicts(signals) ==
    LET markets == MarketOrder(signals, << >>)
    IN OverMarkets("opposite_direction", signals, markets)
        \o OverMarkets("structural_tactical_mismatch", signals, markets)
        \o OverMarkets("timeframe_mismatch", signals, markets)

----------------------------------------------------------------------------
(* detect_conflicts applied to bounded signal lists *)

\* the signal a caller puts at position i of the list
InputSignal(i, mkt, dir, conf, vw, st) ==
    Signal("s" \o ToString(i), "v1", mkt, "signal " \o ToString(i), dir, conf, vw, st)

InitConflicts ==
    /\ cd_signals = << >>
    /\ cd_conflicts = NoConflictCall
    /\ cached_signals = << >>
    /\ snapshots = << >>
    /\ last = Call("none", << >>, << >>)
    /\ nSnap = 0
    /\ nEdit = 0
    /\ alerts = << >>
    /\ today = 1
    /\ regime_history = << >>
    /\ audit_log = << >>
    /\ audit_clock = 0
    /\ nLogged = 0
    /\ writer = Idle
    /\ reader = Idle
    /\ evaluators = << >>
    /\ signals_file = NoSignalsFile
    /\ cached_file_mtime = 0
    /\ load_from_db = TRUE
    /\ db_signals = cached_signals

\* the caller extends the list it is about to hand to detect_conflicts
AppendSignal(mkt, dir, conf, vw, st) ==
    /\ ~cd_conflicts.called
    /\ Len(cd_signals) < MaxSignals
    /\ cd_signals' = Append(cd_signals,
                            InputSignal(Len(cd_signals) + 1, mkt, dir, conf, vw, st))
    /\ UNCHANGED <<cd_conflicts, cached_signals, snapshots, last, nSnap, nEdit,
                 alerts, today, regime_history,
                 audit_log, audit_clock, nLogged,
                 writer, reader, evaluators,
                 signals_file, cached_file_mtime, load_from_db,
                 db_signals>>

DetectConflicts ==
    /\ ~cd_conflicts.called
    /\ cd_conflicts' = [called |-> TRUE, ret |-> detect_conflicts(cd_signals)]
    /\ UNCHANGED <<cd_signals, cached_signals, snapshots, last, nSnap, nEdit,
                 alerts, today, regime_history,
                 audit_log, audit_clock, nLogged,
                 writer, reader, evaluators,
                 signals_file, cached_file_mtime, load_from_db,
                 db_signals>>

NextConflicts ==
    \/ \E mkt \in Markets, dir \in Directions, conf \in Confidences,
          vw \in ValidityWindows, st \in SignalTypes :
          AppendSignal(mkt, dir, conf, vw, st)
    \/ DetectConflicts

SpecConflicts == InitConflicts /\ [][NextConflicts]_vars

----------------------------------------------------------------------------
(* Properties of the snapshot store *)

StoreEntries == Range(snapshots)

SnapshotDates == {e.snapshot_date : e \in StoreEntries}

EntriesOn(d) == {e \in StoreEntries : e.snapshot_date = d}

EntriesUpTo(d) == {e \in StoreEntries : e.snapshot_date <= d}

LatestDateUpTo(d) ==
    CHOOSE m \in SnapshotDates : m <= d /\ \A o \in SnapshotDates : o <= d => o <= m

LiveIds == IdsOf(cached_signals)

LiveSignal(id) == CHOOSE sig \in Range(cached_signals) : sig.signal_id = id

Ids(entries) == {entries[i].signal_id : i \in 1..Len(entries)}

UniqueKeys(store) ==
    \A i, j \in 1..Len(store) : SnapKey(store[i]) = SnapKey(store[j]) => i = j

\* C1: as_of(d) returns precisely the signal set captured by the snapshot taken on
\* the latest snapshot date <= d, and nothing taken from an earlier date.
C1_PointInTimeConsistency ==
    (last.op = "as_of" /\ EntriesUpTo(last.args[1]) # {}) =>
        /\ Range(last.ret) =
              {e.signal : e \in EntriesOn(LatestDateUpTo(last.args[1]))}
        /\ Len(last.ret) = Cardinality(EntriesOn(LatestDateUpTo(last.args[1])))

\* C2: after snapshot(d) returns, the snapshots stored under d are exactly the
\* signals the provider currently returns, with no entry under d for an identity
\* that is not in the current signal set.
C2_SnapshotOverwritesDate ==
    last.op = "snapshot" =>
        /\ {e.signal : e \in EntriesOn(last.args[1])} = Range(cached_signals)
        /\ {e.signal_id : e \in EntriesOn(last.args[1])} = LiveIds

HistoricalIds(d) == {e.signal_id : e \in EntriesOn(d)}

HistoricalSignal(d, id) ==
    (CHOOSE e \in EntriesOn(d) : e.signal_id = id).signal

InRange(d, start_date, end_date) ==
    /\ (start_date = NoDate \/ start_date <= d)
    /\ (end_date = NoDate \/ d <= end_date)

\* C8: history(signal_id, start, end) leaves the live list and the store as they
\* were and returns exactly the stored snapshots of that identity dated within
\* [start, end], both bounds inclusive and an omitted bound unbounded, in strictly
\* ascending date order.
C8_HistoryExact ==
    [][ last'.op = "history" =>
          /\ snapshots' = snapshots
          /\ cached_signals' = cached_signals
          /\ Range(last'.ret) =
                {e \in StoreEntries :
                    /\ e.signal_id = last'.args[1]
                    /\ InRange(e.snapshot_date, last'.args[2], last'.args[3])}
          /\ \A i \in 1..(Len(last'.ret) - 1) :
                last'.ret[i].snapshot_date < last'.ret[i + 1].snapshot_date ]_vars

C8_Witness ==
    /\ last.op = "history"
    /\ Len(last.ret) = 2
    /\ last.ret[1].snapshot_date = last.args[2]
    /\ last.ret[2].snapshot_date = last.args[3]
    /\ \E e \in StoreEntries : e.signal_id # last.args[1]

----------------------------------------------------------------------------
(* Properties of detect_conflicts *)

InputOf(market) == SelectSeq(cd_signals, LAMBDA s : s.market = market)

ConflictsOf(market, type) ==
    SelectSeq(cd_conflicts.ret,
              LAMBDA c : c.market = market /\ c.conflict_type = type)

\* the signals of the market are exactly one high-confidence bullish
\* structural-type signal and one high-confidence bearish tactical-type signal
StructuralBullVsTacticalBear(market) ==
    LET sigs == InputOf(market)
    IN /\ Len(sigs) = 2
       /\ \E i, j \in 1..2 :
             /\ i # j
             /\ sigs[i].direction = "Bullish" /\ sigs[i].confidence = "High"
             /\ sigs[i].signal_type = "structural"
             /\ sigs[j].direction = "Bearish" /\ sigs[j].confidence = "High"
             /\ sigs[j].signal_type = "tactical"

\* C9 as stated: such a market gets exactly one structural_tactical_mismatch
\* conflict and no opposite_direction conflict.
C9_MismatchWithoutOpposite ==
    cd_conflicts.called =>
        \A m \in Markets :
            StructuralBullVsTacticalBear(m) =>
                /\ Len(ConflictsOf(m, "structural_tactical_mismatch")) = 1
                /\ Len(ConflictsOf(m, "opposite_direction")) = 0

\* C9 amended: such a market gets exactly one structural_tactical_mismatch conflict
\* and exactly one opposite_direction conflict, each naming the bullish signal and
\* then the bearish one.
C9_MismatchAndOpposite ==
    cd_conflicts.called =>
        \A m \in Markets :
            StructuralBullVsTacticalBear(m) =>
                LET bull == SelectSeq(InputOf(m), LAMBDA s : s.direction = "Bullish")
                    bear == SelectSeq(InputOf(m), LAMBDA s : s.direction = "Bearish")
                    named == SignalIdList(bull \o bear)
                    mismatch == ConflictsOf(m, "structural_tactical_mismatch")
                    opposite == ConflictsOf(m, "opposite_direction")
                IN /\ Len(mismatch) = 1
                   /\ mismatch[1].conflicting_signals = named
                   /\ Len(opposite) = 1
                   /\ opposite[1].conflicting_signals = named

C9_Witness ==
    /\ cd_conflicts.called
    /\ \E m \in Markets :
          /\ StructuralBullVsTacticalBear(m)
          /\ Len(ConflictsOf(m, "structural_tactical_mismatch")) = 1
          /\ \A i \in 1..Len(InputOf(m)) : InputOf(m)[i].validity_window = "weekly"

\* C10: every conflict detect_conflicts returns is for a market with at least two
\* signals in the input, and the empty input yields the empty list.
C10_NoConflictBelowTwoSignals ==
    cd_conflicts.called =>
        /\ \A i \in 1..Len(cd_conflicts.ret) :
              Len(InputOf(cd_conflicts.ret[i].market)) >= 2
        /\ cd_signals = << >> => cd_conflicts.ret = << >>

C10_Witness ==
    /\ cd_conflicts.called
    /\ Len(cd_signals) = 2
    /\ cd_signals[1].market # cd_signals[2].market
    /\ cd_signals[1].direction = "Bullish" /\ cd_signals[1].confidence = "High"
    /\ cd_signals[2].direction = "Bearish" /\ cd_signals[2].confidence = "High"
    /\ cd_signals[1].signal_type = "structural" /\ cd_signals[2].signal_type = "tactical"
    /\ cd_signals[1].validity_window = "structural"
    /\ cd_signals[2].validity_window = "daily"
    /\ cd_conflicts.ret = << >>

----------------------------------------------------------------------------
(* detect_conflicts applied to longer lists over a pool of signal profiles *)

MaxListed == 4        \* length of the list handed to detect_conflicts in SpecOrder

\* <<confidence, validity_window, signal_type>>: with opposite directions in one
\* market, profile 1 against profile 1 meets rule 1, profile 1 against profile 2
\* rules 1 and 2, and profile 2 against profile 3 rules 2 and 3
Profiles ==
    << <<"High", "weekly", "tactical">>,
       <<"High", "structural", "structural">>,
       <<"Medium", "daily", "tactical">> >>

\* the caller extends the list with a signal of one of the profiles
AppendProfile(mkt, dir, p) ==
    /\ ~cd_conflicts.called
    /\ Len(cd_signals) < MaxListed
    /\ cd_signals' = Append(cd_signals,
                            InputSignal(Len(cd_signals) + 1, mkt, dir,
                                        Profiles[p][1], Profiles[p][2], Profiles[p][3]))
    /\ UNCHANGED <<cd_conflicts, cached_signals, snapshots, last, nSnap, nEdit,
                 alerts, today, regime_history,
                 audit_log, audit_clock, nLogged,
                 writer, reader, evaluators,
                 signals_file, cached_file_mtime, load_from_db,
                 db_signals>>

NextOrder ==
    \/ \E mkt \in Markets, dir \in {"Bullish", "Bearish"}, p \in 1..Len(Profiles) :
          AppendProfile(mkt, dir, p)
    \/ DetectConflicts

SpecOrder == InitConflicts /\ [][NextOrder]_vars

RuleRank(type) ==
    CASE type = "opposite_direction" -> 1
      [] type = "structural_tactical_mismatch" -> 2
      [] type = "timeframe_mismatch" -> 3

\* position at which a market first appears in the input list
FirstIndex(market) ==
    CHOOSE i \in 1..Len(cd_signals) :
        /\ cd_signals[i].market = market
        /\ \A j \in 1..(i - 1) : cd_signals[j].market # market

\* C11: in the returned list a conflict precedes another only if its rule comes
\* earlier (opposite_direction, structural_tactical_mismatch, timeframe_mismatch)
\* or, for the same rule, its market appears earlier in the input list; so the
\* list holds at most one conflict per rule and market and its order is fixed by
\* the input list.
C11_ConflictOrder ==
    cd_conflicts.called =>
        \A i, j \in 1..Len(cd_conflicts.ret) :
            i < j =>
                LET a == cd_conflicts.ret[i]
                    b == cd_conflicts.ret[j]
                IN \/ RuleRank(a.conflict_type) < RuleRank(b.conflict_type)
                   \/ /\ a.conflict_type = b.conflict_type
                      /\ FirstIndex(a.market) < FirstIndex(b.market)

\* the market that comes first has conflicts of the second and third rule only,
\* the other market, alphabetically earlier, of the first and second rule
C11_Witness ==
    /\ cd_conflicts.called
    /\ cd_signals # << >>
    /\ cd_signals[1].market = "WTI Crude Oil"
    /\ [i \in 1..Len(cd_conflicts.ret) |->
            <<cd_conflicts.ret[i].conflict_type, cd_conflicts.ret[i].market>>]
         = << <<"opposite_direction", "Gold">>,
              <<"structural_tactical_mismatch", "WTI Crude Oil">>,
              <<"structural_tactical_mismatch", "Gold">>,
              <<"timeframe_mismatch", "WTI Crude Oil">> >>

----------------------------------------------------------------------------
(* regime_detector.py *)

UpperCase ==
    <<"A", "B", "C", "D", "E", "F", "G", "H", "I", "J", "K", "L", "M",
      "N", "O", "P", "Q", "R", "S", "T", "U", "V", "W", "X", "Y", "Z">>

LowerCase ==
    <<"a", "b", "c", "d", "e", "f", "g", "h", "i", "j", "k", "l", "m",
      "n", "o", "p", "q", "r", "s", "t", "u", "v", "w", "x", "y", "z">>

\* str.lower() on one character; a name is a sequence of characters
LowerChar(c) ==
    IF \E i \in 1..Len(UpperCase) : UpperCase[i] = c
    THEN LowerCase[CHOOSE i \in 1..Len(UpperCase) : UpperCase[i] = c]
    ELSE c

\* name.lower()
Lower(name) == [i \in 1..Len(name) |-> LowerChar(name[i])]

\* sub in name
InName(sub, name) ==
    \E i \in 0..(Len(name) - Len(sub)) : SubSeq(name, i + 1, i + Len(sub)) = sub

RECURSIVE JoinChars(_)
\* the name as one string, for the f-strings
JoinChars(name) == IF name = << >> THEN "" ELSE Head(name) \o JoinChars(Tail(name))

\* Signal.category is a str and any value is accepted; these are the four
\* pillars of the registry and a category that is none of them
Macro == <<"M", "a", "c", "r", "o">>

Fundamental == <<"F", "u", "n", "d", "a", "m", "e", "n", "t", "a", "l">>

Technical == <<"T", "e", "c", "h", "n", "i", "c", "a", "l">>

Sentiment == <<"S", "e", "n", "t", "i", "m", "e", "n", "t">>

Flow == <<"F", "l", "o", "w">>

\* models.Signal, restricted to the fields detect_regime and
\* calculate_composite_signal read
AnalysisSignal(id, mkt, cat, nm, dir, conf, sc) ==
    [signal_id |-> id, market |-> mkt, category |-> cat, name |-> nm,
     direction |-> dir, confidence |-> conf, score |-> sc]

RegimeTypes ==
    {"inflationary_growth", "risk_off", "tightening", "disinflationary_growth",
     "uncertain"}

\* models.Regime
Regime(type, description, indicators, impact, detected_date, confidence) ==
    [regime_type |-> type, description |-> description, indicators |-> indicators,
     impact |-> impact, detected_date |-> detected_date, confidence |-> confidence]

Impact(energy, metals, ags) == [energy |-> energy, metals |-> metals, ags |-> ags]

\* a category test that lets every signal through
IsMacroAlways(s) == TRUE

\* s.category == "Macro"
IsMacro(s) == s.category = Macro

\* "USD" in s.name or "DXY" in s.name
IsUsdSignal(s) ==
    InName(<<"U", "S", "D">>, s.name) \/ InName(<<"D", "X", "Y">>, s.name)

\* "rate" in s.name.lower() or "yield" in s.name.lower() or "10Y" in s.name
IsRatesSignal(s) ==
    \/ InName(<<"r", "a", "t", "e">>, Lower(s.name))
    \/ InName(<<"y", "i", "e", "l", "d">>, Lower(s.name))
    \/ InName(<<"1", "0", "Y">>, s.name)

\* "growth" in s.name.lower() or "copper" in s.name.lower() or "equity" in s.name.lower()
IsGrowthSignal(s) ==
    \/ InName(<<"g", "r", "o", "w", "t", "h">>, Lower(s.name))
    \/ InName(<<"c", "o", "p", "p", "e", "r">>, Lower(s.name))
    \/ InName(<<"e", "q", "u", "i", "t", "y">>, Lower(s.name))

\* the state of one bucket: bullish takes precedence over bearish, and the third
\* state is given only when no signal of the bucket is directional
BucketState(bucket_signals, if_bullish, if_bearish, otherwise) ==
    IF bucket_signals = << >> THEN "unknown"
    ELSE IF \E i \in 1..Len(bucket_signals) : bucket_signals[i].direction = "Bullish"
    THEN if_bullish
    ELSE IF \E i \in 1..Len(bucket_signals) : bucket_signals[i].direction = "Bearish"
    THEN if_bearish
    ELSE otherwise

\* all(v != "unknown" for v in indicators.values())
AllKnown(indicators) ==
    /\ indicators.USD # "unknown"
    /\ indicators.Rates # "unknown"
    /\ indicators.Growth # "unknown"

detect_regime(signals, day) ==
    LET macro_signals == SelectSeq(signals, IsMacro)
        usd_strength ==
            BucketState(SelectSeq(macro_signals, IsUsdSignal), "strong", "weak", "mixed")
        rates_direction ==
            BucketState(SelectSeq(macro_signals, IsRatesSignal),
                        "rising", "falling", "stable")
        growth_strength ==
            BucketState(SelectSeq(macro_signals, IsGrowthSignal),
                        "strong", "weak", "mixed")
        indicators ==
            [USD |-> usd_strength, Rates |-> rates_direction, Growth |-> growth_strength]
    IN IF macro_signals = << >>
       THEN Regime("uncertain",
                       "Unable to classify regime - no macro signals available",
                       << >>,
                       << >>,
                       day, "Low")
       ELSE IF /\ usd_strength = "weak" /\ rates_direction = "rising"
               /\ growth_strength = "strong"
       THEN Regime("inflationary_growth",
                       "Inflationary growth regime: Weak USD, rising rates, and strong growth "
                          \o "suggest commodities should perform well, especially energy and "
                          \o "industrial metals.",
                       indicators,
                       Impact("Bullish - strong demand and weak USD support prices",
                               "Bullish - industrial metals benefit from growth, precious metals "
                                  \o "benefit from inflation",
                               "Mixed - strong demand but potential cost pressures"),
                       day, IF AllKnown(indicators) THEN "High" ELSE "Medium")
       ELSE IF /\ usd_strength = "strong" /\ rates_direction = "falling"
               /\ growth_strength = "weak"
       THEN Regime("risk_off",
                       "Risk-off regime: Strong USD, falling rates, and weak growth suggest "
                          \o "defensive positioning. Precious metals may outperform, while "
                          \o "industrial commodities face headwinds.",
                       indicators,
                       Impact("Bearish - weak demand and strong USD pressure prices",
                               "Mixed - precious metals benefit from safe-haven flows, industrial "
                                  \o "metals suffer",
                               "Bearish - weak demand and strong USD pressure prices"),
                       day, IF AllKnown(indicators) THEN "High" ELSE "Medium")
       ELSE IF /\ usd_strength = "strong" /\ rates_direction = "rising"
               /\ growth_strength \in {"mixed", "unknown"}
       THEN Regime("tightening",
                       "Tightening regime: Strong USD and rising rates suggest monetary "
                          \o "tightening. Commodities face headwinds from stronger dollar and higher "
                          \o "financing costs.",
                       indicators,
                       Impact("Bearish - strong USD and higher rates pressure prices",
                               "Bearish - strong USD and higher rates pressure prices",
                               "Bearish - strong USD and higher rates pressure prices"),
                       day, IF usd_strength # "unknown" /\ rates_direction # "unknown"
                            THEN "High" ELSE "Medium")
       ELSE IF /\ usd_strength \in {"mixed", "unknown"} /\ rates_direction = "stable"
               /\ growth_strength = "strong"
       THEN Regime("disinflationary_growth",
                       "Disinflationary growth regime: Strong growth with stable rates "
                          \o "suggests healthy expansion without inflation pressures. Commodities "
                          \o "benefit from demand but face less inflation support.",
                       indicators,
                       Impact("Bullish - strong demand supports prices",
                               "Bullish - industrial metals benefit from growth",
                               "Bullish - strong demand supports prices"),
                       day, IF growth_strength = "strong" /\ rates_direction = "stable"
                            THEN "High" ELSE "Medium")
       ELSE Regime("uncertain",
                       "Uncertain regime: Signal patterns do not clearly match any defined "
                          \o "regime classification.",
                       indicators,
                       Impact("Uncertain - mixed signals",
                               "Uncertain - mixed signals",
                               "Uncertain - mixed signals"),
                       day, "Low")

----------------------------------------------------------------------------
(* detect_regime applied to bounded signal lists *)

MaxMacro == 3         \* length of the list handed to detect_regime

\* the names a signal of the list may carry: one per bucket, one outside every
\* bucket and one in two buckets
RegimeNames ==
    << <<"U", "S", "D", " ", "T", "r", "e", "n", "d">>,
       <<"1", "0", "Y", " ", "Y", "i", "e", "l", "d">>,
       <<"C", "o", "p", "p", "e", "r", " ", "D", "e", "m", "a", "n", "d">>,
       <<"R", "S", "I">>,
       <<"U", "S", "D", " ", "R", "a", "t", "e", "s">> >>

\* the caller extends the list it is about to hand to detect_regime
AppendMacro(cat, n, dir) ==
    /\ last.op = "none"
    /\ Len(cd_signals) < MaxMacro
    /\ cd_signals' = Append(cd_signals,
                            AnalysisSignal("s" \o ToString(Len(cd_signals) + 1), "Gold",
                                           cat, RegimeNames[n], dir, "Medium", NoScore))
    /\ UNCHANGED <<cd_conflicts, cached_signals, snapshots, last, nSnap, nEdit,
                   alerts, today, regime_history,
                 audit_log, audit_clock, nLogged,
                 writer, reader, evaluators,
                 signals_file, cached_file_mtime, load_from_db,
                 db_signals>>

DetectRegime ==
    /\ last.op = "none"
    /\ last' = Call("detect_regime", <<cd_signals>>, detect_regime(cd_signals, today))
    /\ UNCHANGED <<cd_signals, cd_conflicts, cached_signals, snapshots, nSnap, nEdit,
                   alerts, today, regime_history,
                 audit_log, audit_clock, nLogged,
                 writer, reader, evaluators,
                 signals_file, cached_file_mtime, load_from_db,
                 db_signals>>

NextRegime ==
    \/ \E cat \in {Macro, Technical}, n \in 1..Len(RegimeNames), dir \in Directions :
          AppendMacro(cat, n, dir)
    \/ DetectRegime

SpecRegime == InitConflicts /\ [][NextRegime]_vars

\* the signals of the input list that are of category Macro
MacroInput == SelectSeq(cd_signals, LAMBDA s : s.category = Macro)

\* the rows of the decision table, as <<USD, Rates, Growth>> states
DecisionTable ==
    [inflationary_growth |-> {<<"weak", "rising", "strong">>},
     risk_off |-> {<<"strong", "falling", "weak">>},
     tightening |-> {<<"strong", "rising", g>> : g \in {"mixed", "unknown"}},
     disinflationary_growth |-> {<<u, "stable", "strong">> : u \in {"mixed", "unknown"}}]

Buckets(regime) ==
    <<regime.indicators.USD, regime.indicators.Rates, regime.indicators.Growth>>

\* C12: detect_regime returns one of the five regime types for every signal list;
\* it returns uncertain when the list has no Macro signal and whenever the three
\* bucket states match no row of the decision table, and the regime of a row
\* when they match it.
C12_RegimeTotality ==
    last.op = "detect_regime" =>
        /\ last.ret.regime_type \in RegimeTypes
        /\ MacroInput = << >> => last.ret.regime_type = "uncertain"
        /\ MacroInput # << >> =>
              \A t \in DOMAIN DecisionTable :
                  last.ret.regime_type = t <=> Buckets(last.ret) \in DecisionTable[t]

C12_Witness ==
    /\ last.op = "detect_regime"
    /\ cd_signals # << >>
    /\ MacroInput = << >>
    /\ \E i \in 1..Len(cd_signals) : IsUsdSignal(cd_signals[i])
    /\ \E i \in 1..Len(cd_signals) : IsRatesSignal(cd_signals[i])
    /\ last.ret.regime_type = "uncertain"

\* C13: detect_regime reports confidence High only when none of the three bucket
\* states is unknown, Medium for a regime other than uncertain classified with a
\* bucket unknown, and Low for the uncertain regime.
C13_RegimeConfidence ==
    last.op = "detect_regime" =>
        /\ last.ret.regime_type = "uncertain" => last.ret.confidence = "Low"
        /\ MacroInput # << >> =>
              /\ last.ret.confidence = "High" => AllKnown(last.ret.indicators)
              /\ (last.ret.regime_type # "uncertain" /\ ~AllKnown(last.ret.indicators))
                    => last.ret.confidence = "Medium"

----------------------------------------------------------------------------
(* Decimal values: the fraction <<numerator, denominator>> in lowest terms    *)
(* with a positive denominator                                               *)

RECURSIVE GCD(_, _)
GCD(a, b) == IF b = 0 THEN a ELSE GCD(b, a % b)

Abs(n) == IF n < 0 THEN -n ELSE n

Rat(n, d) ==
    LET g == GCD(Abs(n), Abs(d))
        s == IF d < 0 THEN -1 ELSE 1
    IN <<s * (n \div g), s * (d \div g)>>

RatLeq(x, y) == x[1] * y[2] <= y[1] * x[2]

----------------------------------------------------------------------------
(* Python floats: IEEE 754 binary64, every operation rounded to the nearest  *)
(* float, a tie going to the even mantissa                                   *)

\* The element of a one-element set. In Only({F(v) : v \in {e}}) the
\* expression e is evaluated once, however often F uses v.
Only(S) == CHOOSE v \in S : TRUE

\* A natural number of any size is the sequence of its digits in base 2^13,
\* lowest digit first, without leading zero digits; << >> is 0.
LimbBits == 13
LimbBase == 2^13

Limb(x, i) == IF i >= 1 /\ i <= Len(x) THEN x[i] ELSE 0

\* the index of the highest digit that is not 0
TopLimb(x) ==
    IF \A i \in 1..Len(x) : x[i] = 0 THEN 0
    ELSE CHOOSE i \in 1..Len(x) : x[i] # 0 /\ \A j \in (i + 1)..Len(x) : x[j] = 0

BigNorm(x0) == Only({SubSeq(x, 1, TopLimb(x)) : x \in {x0 \o << >>}})

RECURSIVE Digits(_, _, _)
\* the digits of the columns from i on, carry coming in from the columns below
Digits(c, i, carry) ==
    IF i > Len(c) THEN <<carry % LimbBase, carry \div LimbBase>>
    ELSE Only({<<t % LimbBase>> \o Digits(c, i + 1, t \div LimbBase)
               : t \in {c[i] + carry}})

\* the number whose column i holds c[i], any integer of up to 29 bits
BigOfColumns(c0) == Only({BigNorm(Digits(c, 1, 0)) : c \in {c0 \o << >>}})

\* n as digits, for 0 <= n < 2^26
BigFromInt(n) == BigOfColumns(<<n % LimbBase, n \div LimbBase>>)

RECURSIVE BigToInt(_)
BigToInt(x) == IF x = << >> THEN 0 ELSE Head(x) + LimbBase * BigToInt(Tail(x))

BigAdd(x0, y0) ==
    Only({BigOfColumns([i \in 1..(IF Len(x) > Len(y) THEN Len(x) ELSE Len(y)) |->
                           Limb(x, i) + Limb(y, i)])
          : x \in {x0}, y \in {y0}})

\* x - y for x >= y
BigSub(x0, y0) ==
    Only({BigOfColumns([i \in 1..Len(x) |-> x[i] - Limb(y, i)]) : x \in {x0}, y \in {y0}})

\* -1, 0 or 1 as x is below, equal to or above y
BigCmp(x0, y0) ==
    Only({IF x = y THEN 0
          ELSE IF Len(x) < Len(y) THEN -1
          ELSE IF Len(x) > Len(y) THEN 1
          ELSE LET i == CHOOSE i \in 1..Len(x) :
                            x[i] # y[i] /\ \A j \in (i + 1)..Len(x) : x[j] = y[j]
               IN IF x[i] < y[i] THEN -1 ELSE 1
          : x \in {x0}, y \in {y0}})

\* x * k for one digit k
BigMulSmall(x0, k) == Only({BigOfColumns([i \in 1..Len(x) |-> x[i] * k]) : x \in {x0}})

RECURSIVE ProductColumn(_, _, _, _)
\* the sum of the x[i] * y[j] with i + j = k + 1, from i on
ProductColumn(x, y, k, i) ==
    IF i > Len(x) THEN 0
    ELSE x[i] * Limb(y, k + 1 - i) + ProductColumn(x, y, k, i + 1)

\* x * y for numbers of at most 7 digits
BigMul(x0, y0) ==
    Only({BigOfColumns([k \in 1..(Len(x) + Len(y)) |-> ProductColumn(x, y, k, 1)])
          : x \in {x0}, y \in {y0}})

\* x * 2^k
BigShl(x0, k) ==
    Only({[i \in 1..(k \div LimbBits) |-> 0]
             \o BigOfColumns([i \in 1..Len(x) |-> x[i] * 2^(k % LimbBits)])
          : x \in {x0}})

\* x \div 2^k
BigShr(x0, k) ==
    Only({BigNorm([i \in 1..(Len(x) - (k \div LimbBits)) |->
                      (x[i + (k \div LimbBits)] \div 2^(k % LimbBits))
                      + (Limb(x, i + 1 + (k \div LimbBits)) % 2^(k % LimbBits))
                           * 2^(LimbBits - (k % LimbBits))])
          : x \in {x0}})

\* x % 2^k
BigLow(x0, k) ==
    Only({BigNorm([i \in 1..((k \div LimbBits) + 1) |->
                      IF i <= k \div LimbBits THEN Limb(x, i)
                      ELSE Limb(x, i) % 2^(k % LimbBits)])
          : x \in {x0}})

\* the number of binary digits of x
BigBitLen(x0) ==
    Only({IF x = << >> THEN 0
          ELSE LimbBits * (Len(x) - 1)
                  + Cardinality({b \in 0..(LimbBits - 1) : 2^b <= x[Len(x)]})
          : x \in {x0}})

RECURSIVE QuotDigitFrom(_, _, _)
\* the largest digit q with q * d <= r, from an estimate that is not below it
QuotDigitFrom(r, d, q) ==
    IF BigCmp(BigMulSmall(d, q), r) > 0 THEN QuotDigitFrom(r, d, q - 1) ELSE q

\* r \div d for r < d * 2^13, the top digit of d having its top bit set
QuotDigit(r, d) ==
    IF Len(r) < Len(d) THEN 0
    ELSE Only({QuotDigitFrom(r, d, IF estimate > LimbBase - 1 THEN LimbBase - 1
                                   ELSE estimate)
               : estimate \in {IF Len(r) = Len(d) THEN r[Len(r)] \div d[Len(d)]
                               ELSE (r[Len(r)] * LimbBase + r[Len(r) - 1])
                                       \div d[Len(d)]}})

RECURSIVE BigDivFrom(_, _, _, _)
\* long division, digit i of n coming down next, r the remainder so far
BigDivFrom(n, d, i, r) ==
    IF i = 0 THEN [q |-> << >>, r |-> r]
    ELSE Only({Only({Only({[q |-> Append(rest.q, digit), r |-> rest.r]
                           : rest \in {BigDivFrom(n, d, i - 1,
                                                  BigSub(r1, BigMulSmall(d, digit)))}})
                     : digit \in {QuotDigit(r1, d)}})
               : r1 \in {BigNorm(<<n[i]>> \o r)}})

\* quotient and remainder of n by d # 0
BigDivMod(n0, d0) ==
    Only({Only({Only({[q |-> BigNorm(res.q), r |-> BigShr(res.r, shift)]
                      : res \in {BigDivFrom(n, d, Len(n), << >>)}})
                : n \in {BigShl(n0, shift)}, d \in {BigShl(d0, shift)}})
          : shift \in {(LimbBits - (BigBitLen(d0) % LimbBits)) % LimbBits}})

\* A float is [s, m, e]: the number (-1)^s * m * 2^e, with 2^52 <= m < 2^53, or
\* m = 0 and e = 0 for the two zeros. Exponents stay far inside the range of
\* the format, so that no result is subnormal or infinite.
MantissaBits == 53

Float(s, m, e) == [s |-> s, m |-> m, e |-> e]

FloatZero(s) == Float(s, << >>, 0)

IsZero(x) == x.m = << >>

\* n * 2^e with the lowest k >= 1 binary digits of n rounded away
RoundAway(s, n, e, sticky, k) ==
    Only({Only({IF BigBitLen(q1) > MantissaBits THEN Float(s, BigShr(q1, 1), e + k + 1)
                ELSE Float(s, q1, e + k)
                : q1 \in {IF c > 0 \/ (c = 0 /\ (sticky \/ q[1] % 2 = 1))
                          THEN BigAdd(q, <<1>>) ELSE q}})
          : q \in {BigShr(n, k)}, c \in {BigCmp(BigLow(n, k), BigShl(<<1>>, k - 1))}})

\* the float nearest to (-1)^s * n * 2^e, an exact tie going to the even
\* mantissa; sticky says that the number is a little above n * 2^e
RoundToFloat(s, n0, e, sticky) ==
    Only({IF n = << >> THEN FloatZero(s)
          ELSE Only({IF k <= 0 THEN Float(s, BigShl(n, -k), e + k)
                     ELSE RoundAway(s, n, e, sticky, k)
                     : k \in {BigBitLen(n) - MantissaBits}})
          : n \in {n0}})

\* float(n) for an int n
FloatOfInt(n) ==
    RoundToFloat(IF n < 0 THEN 1 ELSE 0, BigFromInt(IF n < 0 THEN -n ELSE n), 0, FALSE)

\* x * y
FloatMul(x0, y0) ==
    Only({IF IsZero(x) \/ IsZero(y) THEN FloatZero((x.s + y.s) % 2)
          ELSE RoundToFloat((x.s + y.s) % 2, BigMul(x.m, y.m), x.e + y.e, FALSE)
          : x \in {x0}, y \in {y0}})

\* x / y for y # 0
FloatDiv(x0, y0) ==
    Only({IF IsZero(x) THEN FloatZero((x.s + y.s) % 2)
          ELSE Only({RoundToFloat((x.s + y.s) % 2, res.q,
                                  x.e - y.e - (MantissaBits + 2), res.r # << >>)
                     : res \in {BigDivMod(BigShl(x.m, MantissaBits + 2), y.m)}})
          : x \in {x0}, y \in {y0}})

\* x + y where the exponent of x is not below that of y, neither being zero:
\* the smaller of the two magnitudes is added to the larger, or taken from it
FloatAddAligned(x, y) ==
    IF x.e - y.e > MantissaBits + 3 THEN x
    ELSE Only({Only({IF x.s # y.s /\ c = 0 THEN FloatZero(0)
                     ELSE RoundToFloat(
                              IF c >= 0 THEN x.s ELSE y.s,
                              BigOfColumns(
                                  [i \in 1..(IF c >= 0 THEN Len(xm) ELSE Len(y.m)) |->
                                      (IF c >= 0 THEN xm[i] ELSE y.m[i])
                                      + (IF x.s = y.s THEN 1 ELSE -1)
                                           * (IF c >= 0 THEN Limb(y.m, i)
                                              ELSE Limb(xm, i))]),
                              y.e, FALSE)
                     : c \in {BigCmp(xm, y.m)}})
               : xm \in {BigShl(x.m, x.e - y.e)}})

\* x + y
FloatAdd(x0, y0) ==
    Only({IF IsZero(x) /\ IsZero(y) THEN FloatZero(IF x.s = 1 /\ y.s = 1 THEN 1 ELSE 0)
          ELSE IF IsZero(x) THEN y
          ELSE IF IsZero(y) THEN x
          ELSE Only({FloatAddAligned(p[1], p[2])
                     : p \in {IF x.e >= y.e THEN <<x, y>> ELSE <<y, x>>}})
          : x \in {x0}, y \in {y0}})

\* -1, 0 or 1 as |x| is below, equal to or above |y|
FloatCmpAbs(x, y) ==
    IF IsZero(x) THEN (IF IsZero(y) THEN 0 ELSE -1)
    ELSE IF IsZero(y) THEN 1
    ELSE IF x.e < y.e THEN -1
    ELSE IF x.e > y.e THEN 1
    ELSE BigCmp(x.m, y.m)

\* -1, 0 or 1 as x is below, equal to or above y; the two zeros are equal
FloatCmp(x0, y0) ==
    Only({IF IsZero(x) /\ IsZero(y) THEN 0
          ELSE IF x.s # y.s THEN (IF x.s = 1 THEN -1 ELSE 1)
          ELSE IF x.s = 0 THEN FloatCmpAbs(x, y)
          ELSE FloatCmpAbs(y, x)
          : x \in {x0}, y \in {y0}})

FloatLeq(x, y) == FloatCmp(x, y) <= 0

\* max(x, y) and min(x, y) of Python: the first argument unless the second is
\* strictly beyond it
FloatMax(x0, y0) == Only({IF FloatCmp(y, x) > 0 THEN y ELSE x : x \in {x0}, y \in {y0}})

FloatMin(x0, y0) == Only({IF FloatCmp(y, x) < 0 THEN y ELSE x : x \in {x0}, y \in {y0}})

RECURSIVE FloatSumFrom(_, _, _)
FloatSumFrom(xs, i, acc0) ==
    IF i > Len(xs) THEN acc0
    ELSE Only({FloatSumFrom(xs, i + 1, acc) : acc \in {FloatAdd(acc0, xs[i])}})

\* sum(xs) of a list of floats: 0 + xs[0] + xs[1] + ..., from the left
FloatSum(xs0) == Only({FloatSumFrom(xs, 1, FloatZero(0)) : xs \in {SubSeq(xs0, 1, Len(xs0))}})

\* the float a decimal literal n/d denotes: the float nearest to it
Dec(n, d) == FloatDiv(FloatOfInt(n), FloatOfInt(d))

\* round(x, 3): the multiple of 1/1000 nearest to the float x, an exact tie
\* going to the even one; the result is written as the fraction it prints as
Round3(x0) ==
    Only({IF IsZero(x) THEN Rat(0, 1)
          ELSE Only({IF x.e >= 0
                     THEN Rat((1 - 2 * x.s) * BigToInt(BigShl(n, x.e)), 1000)
                     ELSE Only({Rat((1 - 2 * x.s)
                                      * (BigToInt(q)
                                         + (IF c > 0 \/ (c = 0 /\ Limb(q, 1) % 2 = 1)
                                            THEN 1 ELSE 0)),
                                    1000)
                                : q \in {BigShr(n, -x.e)},
                                  c \in {BigCmp(BigLow(n, -x.e),
                                                BigShl(<<1>>, -x.e - 1))}})
                     : n \in {BigMulSmall(x.m, 1000)}})
          : x \in {x0}})
----------------------------------------------------------------------------
(* scoring.py *)

\* the literals 1.0, -1.0, 0.6 and 0.3
FloatOne == FloatOfInt(1)

FloatMinusOne == FloatOfInt(-1)

MediumMultiplier == Dec(6, 10)

LowMultiplier == Dec(3, 10)

\* Bullish = +1, Bearish = -1, Neutral = 0
DirectionValue(dir) ==
    CASE dir = "Bullish" -> FloatOne
      [] dir = "Bearish" -> FloatMinusOne
      [] OTHER -> FloatZero(0)

\* a multiplier table in which low confidence counts for nothing
ConfidenceMultiplierZeroLow(conf) ==
    CASE conf = "High" -> FloatOne
      [] conf = "Medium" -> MediumMultiplier
      [] OTHER -> FloatZero(0)

\* High = 1.0, Medium = 0.6, Low = 0.3
ConfidenceMultiplier(conf) ==
    CASE conf = "High" -> FloatOne
      [] conf = "Medium" -> MediumMultiplier
      [] OTHER -> LowMultiplier

calculate_signal_score(signal) ==
    LET score == FloatMul(DirectionValue(signal.direction),
                          ConfidenceMultiplier(signal.confidence))
    IN FloatMax(FloatMinusOne, FloatMin(FloatOne, score))

----------------------------------------------------------------------------
(* signal_analysis.py: calculate_composite_signal *)

DEFAULT_PILLAR_WEIGHTS ==
    [Macro |-> Dec(35, 100), Fundamental |-> Dec(30, 100),
     Technical |-> Dec(20, 100), Sentiment |-> Dec(15, 100)]

\* the pillar_weights argument: None, or a dict from pillar to weight
NoWeights == [given |-> FALSE]

Weights(dict) == [given |-> TRUE, dict |-> dict]

\* the value returned when there is no composite (None)
NoComposite == [is_none |-> TRUE]

RECURSIVE PillarOrder(_, _)
\* the keys of by_pillar, in the order in which the categories first appear
PillarOrder(signals, acc) ==
    IF signals = << >> THEN acc
    ELSE PillarOrder(Tail(signals),
            IF \E i \in 1..Len(acc) : acc[i] = Head(signals).category
            THEN acc ELSE Append(acc, Head(signals).category))

\* by_pillar[pillar]
PillarSignals(signals, pillar) == SelectSeq(signals, LAMBDA s : s.category = pillar)

\* not (len(pillar_signals) < min_signals_per_pillar)
HasEnoughSignals(pillar_signals, min_signals_per_pillar) ==
    ~(Len(pillar_signals) < min_signals_per_pillar)

\* confidence_weights: High 1.0, Medium 0.6, Low 0.3
ConfidenceWeight(conf) ==
    CASE conf = "High" -> FloatOne
      [] conf = "Medium" -> MediumMultiplier
      [] OTHER -> LowMultiplier

\* signal.score if signal.score is not None else calculate_signal_score(signal)
SignalScore(signal) ==
    IF signal.score # NoScore THEN signal.score ELSE calculate_signal_score(signal)

\* sum(weighted_scores) / len(weighted_scores), each score times the weight of
\* the signal's confidence
PillarScore(pillar_signals) ==
    FloatDiv(FloatSum([i \in 1..Len(pillar_signals) |->
                          FloatMul(SignalScore(pillar_signals[i]),
                                   ConfidenceWeight(pillar_signals[i].confidence))]),
             FloatOfInt(Len(pillar_signals)))

\* the literal 0.25
DefaultWeight == Dec(25, 100)

\* pillar_weights.get(pillar, 0.25), the dict having the pillar names as keys
PillarWeight(pillar_weights, pillar) ==
    IF JoinChars(pillar) \in DOMAIN pillar_weights
    THEN pillar_weights[JoinChars(pillar)]
    ELSE DefaultWeight

CountDirection(pillar_signals, dir) ==
    Len(SelectSeq(pillar_signals, LAMBDA s : s.direction = dir))

\* the dominant direction of a pillar
PillarDirection(pillar_signals) ==
    LET bullish_count == CountDirection(pillar_signals, "Bullish")
        bearish_count == CountDirection(pillar_signals, "Bearish")
    IN IF bullish_count > bearish_count THEN "Bullish"
       ELSE IF bearish_count > bullish_count THEN "Bearish"
       ELSE "Neutral"

\* conf_values: High 3, Medium 2, Low 1
ConfValue(conf) ==
    CASE conf = "High" -> 3
      [] conf = "Medium" -> 2
      [] OTHER -> 1

\* the literals 2.5 and 1.5
HighFrom == Dec(25, 10)

MediumFrom == Dec(15, 10)

\* >= 2.5 High, >= 1.5 Medium, else Low
ConfidenceBucket(x) ==
    IF FloatLeq(HighFrom, x) THEN "High"
    ELSE IF FloatLeq(MediumFrom, x) THEN "Medium"
    ELSE "Low"

RECURSIVE SumConfValues(_)
\* sum(conf_values.get(c, 1) for c in confidences), a sum of ints
SumConfValues(pillar_signals) ==
    IF pillar_signals = << >> THEN 0
    ELSE ConfValue(Head(pillar_signals).confidence) + SumConfValues(Tail(pillar_signals))

\* the average confidence of a pillar: an int divided by an int
PillarConfidence(pillar_signals) ==
    ConfidenceBucket(FloatDiv(FloatOfInt(SumConfValues(pillar_signals)),
                              FloatOfInt(Len(pillar_signals))))

\* the keys of pillar_scores: the pillars of by_pillar that are not skipped
ScoredPillars(signals, min_signals_per_pillar) ==
    SelectSeq(PillarOrder(signals, << >>),
              LAMBDA p : HasEnoughSignals(PillarSignals(signals, p),
                                          min_signals_per_pillar))

\* pillar_weights_used, in key order
WeightsUsed(signals, pillar_weights, min_signals_per_pillar) ==
    LET pillars == ScoredPillars(signals, min_signals_per_pillar)
    IN [i \in 1..Len(pillars) |-> PillarWeight(pillar_weights, pillars[i])]

\* normalized_weights, in key order; total_weight is not 0
NormalizedWeights(signals, pillar_weights, min_signals_per_pillar) ==
    LET used == WeightsUsed(signals, pillar_weights, min_signals_per_pillar)
        total_weight == FloatSum(used)
    IN [i \in 1..Len(used) |-> FloatDiv(used[i], total_weight)]

\* pillar_scores, in key order
PillarScores(signals, min_signals_per_pillar) ==
    LET pillars == ScoredPillars(signals, min_signals_per_pillar)
    IN [i \in 1..Len(pillars) |-> PillarScore(PillarSignals(signals, pillars[i]))]

\* sum(pillar_scores[p] * normalized_weights[p] for p in pillar_scores.keys()):
\* composite_score before rounding
CompositeScore(pillar_scores, normalized_weights) ==
    FloatSum([i \in 1..Len(pillar_scores) |->
                 FloatMul(pillar_scores[i], normalized_weights[i])])

\* sum(conf_values[pillar_confidences[p]] * normalized_weights[p] for p in ...)
WeightedConfidence(pillar_confidences, normalized_weights) ==
    FloatSum([i \in 1..Len(pillar_confidences) |->
                 FloatMul(FloatOfInt(ConfValue(pillar_confidences[i])),
                          normalized_weights[i])])

\* the characters of category names, in the order of their code points
CodePointOrder ==
    <<" ", "&", "-", "/">>
    \o <<"0", "1", "2", "3", "4", "5", "6", "7", "8", "9">>
    \o UpperCase \o <<"_">> \o LowerCase

\* the place of a character in that order
CodePointRank(c) == CHOOSE i \in 1..Len(CodePointOrder) : CodePointOrder[i] = c

RECURSIVE StrLess(_, _)
\* a < b on str: by the first character that differs, a proper prefix first
StrLess(a, b) ==
    IF b = << >> THEN FALSE
    ELSE IF a = << >> THEN TRUE
    ELSE IF Head(a) = Head(b) THEN StrLess(Tail(a), Tail(b))
    ELSE CodePointRank(Head(a)) < CodePointRank(Head(b))

RECURSIVE SortedPillars(_)
\* sorted(pillar_scores.keys())
SortedPillars(pillars) ==
    IF pillars = << >> THEN << >>
    ELSE LET rest == SortedPillars(Tail(pillars))
             before == SelectSeq(rest, LAMBDA p : ~StrLess(Head(pillars), p))
             after == SelectSeq(rest, LAMBDA p : StrLess(Head(pillars), p))
         IN before \o <<Head(pillars)>> \o after

RECURSIVE JoinPillars(_)
\* ", ".join(f"{p['pillar']} ({p['direction']})" for p in contributing_pillars)
JoinPillars(contributing) ==
    IF contributing = << >> THEN ""
    ELSE JoinChars(Head(contributing).pillar) \o " (" \o Head(contributing).direction \o ")"
            \o (IF Tail(contributing) = << >> THEN "" ELSE ", ")
            \o JoinPillars(Tail(contributing))

\* the literals 0.3 and -0.3
BullishFrom == Dec(3, 10)

BearishFrom == Dec(-3, 10)

\* what calculate_composite_signal returns once its pillar scores, pillar
\* confidences and normalized weights are computed
CompositeResult(signals, market, pillars, pillar_scores, pillar_confidences, normalized_weights, now) ==
    LET sorted == SortedPillars(pillars)
        contributing ==
            [i \in 1..Len(sorted) |->
                LET k == CHOOSE k \in 1..Len(pillars) : pillars[k] = sorted[i]
                    pillar_signals == PillarSignals(signals, sorted[i])
                IN [pillar |-> sorted[i],
                    score |-> Round3(pillar_scores[k]),
                    direction |-> PillarDirection(pillar_signals),
                    confidence |-> pillar_confidences[k],
                    weight |-> Round3(normalized_weights[k]),
                    signal_count |-> Len(pillar_signals)]]
    IN Only({[is_none |-> FALSE,
              market |-> market,
              composite_score |-> Round3(composite_score),
              composite_direction |->
                  IF FloatLeq(BullishFrom, composite_score) THEN "Bullish"
                  ELSE IF FloatLeq(composite_score, BearishFrom) THEN "Bearish"
                  ELSE "Neutral",
              composite_confidence |->
                  ConfidenceBucket(WeightedConfidence(pillar_confidences,
                                                      normalized_weights)),
              pillar_breakdown |-> contributing,
              explanation |->
                  "Composite signal combining " \o ToString(Len(contributing))
                     \o " pillars: " \o JoinPillars(contributing),
              pillar_count |-> Len(contributing),
              total_signals |-> Len(signals),
              calculated_at |-> now]
             : composite_score \in {CompositeScore(pillar_scores, normalized_weights)}})

calculate_composite_signal(signals, market, weights_arg, min_signals_per_pillar, now) ==
    LET pillar_weights ==
            IF weights_arg.given THEN weights_arg.dict ELSE DEFAULT_PILLAR_WEIGHTS
        by_pillar == PillarOrder(signals, << >>)
        pillars == ScoredPillars(signals, min_signals_per_pillar)
        used == WeightsUsed(signals, pillar_weights, min_signals_per_pillar)
    IN IF signals = << >> THEN NoComposite
       ELSE IF Len(by_pillar) < 2 THEN NoComposite
       ELSE IF pillars = << >> THEN NoComposite
       ELSE IF IsZero(FloatSum(used)) THEN NoComposite
       ELSE Only({CompositeResult(signals, market, pillars, pillar_scores,
                                  pillar_confidences, normalized_weights, now)
                  : pillar_scores \in
                        {PillarScores(signals, min_signals_per_pillar) \o << >>},
                    pillar_confidences \in
                        {[i \in 1..Len(pillars) |->
                             PillarConfidence(PillarSignals(signals, pillars[i]))]
                         \o << >>},
                    normalized_weights \in
                        {NormalizedWeights(signals, pillar_weights,
                                           min_signals_per_pillar) \o << >>}})

----------------------------------------------------------------------------
(* calculate_signal_score and calculate_composite_signal on bounded lists *)

MaxPillarSignals == 3   \* length of the list handed to calculate_composite_signal

\* the values the score field of a signal of the list holds: none, or a stored score
StoredScores == <<NoScore, Dec(1, 2), Dec(-1, 2)>>

\* pillar_weights arguments: omitted, positive and not normalized, negative for
\* one pillar with the other pillar left to the 0.25 of .get, and summing to zero
WeightChoices ==
    << NoWeights,
       Weights([Macro |-> Dec(3, 1), Technical |-> Dec(1, 1)]),
       Weights([Macro |-> Dec(-1, 2)]),
       Weights([Macro |-> Dec(1, 1), Technical |-> Dec(-1, 1)]) >>

MinSignalsChoices == {1, 2}

\* the caller extends the list
AppendPillarSignal(cat, dir, conf, k) ==
    /\ last.op = "none"
    /\ Len(cd_signals) < MaxPillarSignals
    /\ cd_signals' = Append(cd_signals,
                            AnalysisSignal("s" \o ToString(Len(cd_signals) + 1), "Gold",
                                           cat, <<"n">>, dir, conf, StoredScores[k]))
    /\ UNCHANGED <<cd_conflicts, cached_signals, snapshots, last, nSnap, nEdit,
                   alerts, today, regime_history,
                 audit_log, audit_clock, nLogged,
                 writer, reader, evaluators,
                 signals_file, cached_file_mtime, load_from_db,
                 db_signals>>

CalculateComposite(w, min_signals_per_pillar) ==
    /\ last.op = "none"
    /\ last' = Call("composite", <<w, min_signals_per_pillar>>,
                    calculate_composite_signal(cd_signals, "Gold", WeightChoices[w],
                                               min_signals_per_pillar, today))
    /\ UNCHANGED <<cd_signals, cd_conflicts, cached_signals, snapshots, nSnap, nEdit,
                   alerts, today, regime_history,
                 audit_log, audit_clock, nLogged,
                 writer, reader, evaluators,
                 signals_file, cached_file_mtime, load_from_db,
                 db_signals>>

CalculateSignalScore(i) ==
    /\ last.op = "none"
    /\ i \in 1..Len(cd_signals)
    /\ last' = Call("score", <<cd_signals[i]>>, calculate_signal_score(cd_signals[i]))
    /\ UNCHANGED <<cd_signals, cd_conflicts, cached_signals, snapshots, nSnap, nEdit,
                   alerts, today, regime_history,
                 audit_log, audit_clock, nLogged,
                 writer, reader, evaluators,
                 signals_file, cached_file_mtime, load_from_db,
                 db_signals>>

\* any direction and confidence; a stored score comes with a bullish low signal
AppendAnyPillarSignal ==
    \E cat \in {Macro, Technical}, dir \in Directions, conf \in Confidences,
       k \in 1..Len(StoredScores) :
        /\ k = 1 \/ (dir = "Bullish" /\ conf = "Low")
        /\ AppendPillarSignal(cat, dir, conf, k)

\* the signals the lists handed to calculate_composite_signal are made of, as
\* <<category, direction, confidence, index of the stored score>>: two registry
\* pillars and a category outside the default weights, with and without a
\* stored score
CompositeInputs ==
    { <<Macro, "Bullish", "Low", 1>>, <<Macro, "Bullish", "Medium", 1>>,
      <<Macro, "Bullish", "High", 1>>, <<Macro, "Bullish", "Medium", 3>>,
      <<Technical, "Bullish", "Low", 1>>, <<Technical, "Bullish", "High", 1>>,
      <<Technical, "Bearish", "Low", 1>>, <<Technical, "Bearish", "Medium", 1>>,
      <<Technical, "Bearish", "High", 1>>, <<Technical, "Neutral", "Medium", 1>>,
      <<Technical, "Bullish", "Low", 2>>, <<Technical, "Bullish", "Medium", 3>>,
      <<Flow, "Bullish", "Medium", 1>> }

AppendCompositeInput ==
    \E input \in CompositeInputs :
        AppendPillarSignal(input[1], input[2], input[3], input[4])

NextComposite ==
    \/ AppendCompositeInput
    \/ \E w \in 1..Len(WeightChoices), m \in MinSignalsChoices : CalculateComposite(w, m)

SpecComposite == InitConflicts /\ [][NextComposite]_vars

NextScore ==
    \/ AppendAnyPillarSignal
    \/ \E i \in 1..MaxPillarSignals : CalculateSignalScore(i)

SpecScore == InitConflicts /\ [][NextScore]_vars

\* the pillars of the input list with at least min_signals signals
QualifyingPillars(min_signals) ==
    {p \in {cd_signals[i].category : i \in 1..Len(cd_signals)} :
        Cardinality({i \in 1..Len(cd_signals) : cd_signals[i].category = p})
            >= min_signals}

\* C14: calculate_composite_signal returns none whenever fewer than two pillars
\* have at least min_signals_per_pillar signals, and every composite it returns
\* has at least two pillars in its pillar_breakdown.
C14_TwoQualifyingPillars ==
    last.op = "composite" =>
        /\ Cardinality(QualifyingPillars(last.args[2])) < 2 => last.ret.is_none
        /\ ~last.ret.is_none => Len(last.ret.pillar_breakdown) >= 2

\* C15: whenever a composite is returned the normalized weights of its pillars
\* are non-negative and sum to 1 (to the three decimals the result is reported
\* with), and the composite score lies in [-1, 1].
C15_CompositeBounded ==
    (last.op = "composite" /\ ~last.ret.is_none) =>
        LET w == WeightChoices[last.args[1]]
            normalized ==
                NormalizedWeights(cd_signals,
                                  IF w.given THEN w.dict ELSE DEFAULT_PILLAR_WEIGHTS,
                                  last.args[2])
        IN /\ \A i \in 1..Len(normalized) : FloatLeq(FloatZero(0), normalized[i])
           /\ Round3(FloatSum(normalized)) = Rat(1, 1)
           /\ RatLeq(Rat(-1, 1), last.ret.composite_score)
           /\ RatLeq(last.ret.composite_score, Rat(1, 1))

\* C16: calculate_signal_score returns a value in [-1, 1], and it returns 0 exactly
\* for the signals whose direction is neutral.
C16_ScoreBounded ==
    last.op = "score" =>
        /\ FloatLeq(FloatMinusOne, last.ret)
        /\ FloatLeq(last.ret, FloatOne)
        /\ IsZero(last.ret) <=> last.args[1].direction = "Neutral"

C16_Witness ==
    /\ last.op = "score"
    /\ last.args[1].direction = "Bearish"
    /\ last.args[1].confidence = "Low"
    /\ last.ret = Dec(-3, 10)

----------------------------------------------------------------------------
(* models.py: Signal.age_days, Signal.is_stale *)

\* (today - self.last_updated).days
AgeDays(s, day) == day - s.last_updated

\* the age in days a signal of the validity window must exceed to be stale
StaleAfter(validity_window) ==
    CASE validity_window = "intraday" -> 1
      [] validity_window = "daily" -> 2
      [] validity_window = "weekly" -> 8
      [] validity_window = "structural" -> 30
      [] OTHER -> 7

\* a staleness test that already holds at the threshold age
IsStaleAtThreshold(s, day) == AgeDays(s, day) >= StaleAfter(s.validity_window)

\* Signal.is_stale
IsStale(s, day) == AgeDays(s, day) > StaleAfter(s.validity_window)

----------------------------------------------------------------------------
(* alert_storage.py *)

AlertTypes ==
    {"direction_change", "confidence_change", "new_conflict", "regime_transition",
     "stale_signal"}

\* models.Alert, restricted to the fields evaluate_alert reads and writes;
\* last_triggered is NoDate until the alert has fired
Alert(alert_id, alert_type, name, conditions, enabled, last_triggered) ==
    [alert_id |-> alert_id, alert_type |-> alert_type, name |-> name,
     conditions |-> conditions, enabled |-> enabled, last_triggered |-> last_triggered]

\* the conditions bag; a key that is absent reads as NoneValue through .get
Conditions(signal_id, market) == [signal_id |-> signal_id, market |-> market]

\* the truth value of a string or None in an if
Truthy(v) == v # NoneValue /\ v # ""

\* the stored regime of a date, or none
NoRegime == [regime_type |-> NoneValue]

get_regime_at_date(history, d) ==
    IF \E i \in 1..Len(history) : history[i].detected_date = d
    THEN history[CHOOSE i \in 1..Len(history) : history[i].detected_date = d]
    ELSE NoRegime

\* no transition
NoTransition == [description |-> NoneValue]

\* a transition description only when there is a previous regime and the regime
\* type changed
detect_regime_transition(current_regime, previous_regime) ==
    IF previous_regime.regime_type = NoneValue
       \/ previous_regime.regime_type = current_regime.regime_type
    THEN NoTransition
    ELSE [from_regime |-> previous_regime.regime_type,
          to_regime |-> current_regime.regime_type,
          description |-> "Regime transition from " \o previous_regime.regime_type
                            \o " to " \o current_regime.regime_type]

\* evaluate_alert returned None
NoTrigger == [triggered |-> FALSE]

\* alert.last_triggered or (date.today() - timedelta(days=1))
GateDate(alert, day) ==
    IF alert.last_triggered # NoDate THEN alert.last_triggered ELSE day - 1

\* what evaluate_alert leaves behind: the alert and the value returned
Evaluated(alert, ret) == [alert |-> alert, ret |-> ret]

\* a firing that returns the payload and leaves last_triggered as it was
FiredUnstamped(alert, day, payload) ==
    Evaluated(alert,
              [triggered |-> TRUE, alert_id |-> alert.alert_id,
               alert_name |-> alert.name] @@ payload)

\* alert.last_triggered = date.today(); return {...}
Fired(alert, day, payload) ==
    Evaluated([alert EXCEPT !.last_triggered = day],
              [triggered |-> TRUE, alert_id |-> alert.alert_id,
               alert_name |-> alert.name] @@ payload)

\* the DIRECTION_CHANGE branch
EvaluateDirectionChange(alert, live, store, day) ==
    LET signal_id == alert.conditions.signal_id
        changes == get_changes_since(store, live, GateDate(alert, day))
        hits == SelectSeq(changes.changed_direction,
                          LAMBDA change : change.signal_id = signal_id)
    IN IF Truthy(signal_id) /\ signal_id \in IdsOf(live) /\ hits # << >>
       THEN Fired(alert, day,
                  [trigger_reason |->
                      "Signal " \o JoinChars(hits[1].signal_name)
                         \o " changed direction from " \o hits[1].old_direction
                         \o " to " \o hits[1].new_direction,
                   signal_id |-> signal_id,
                   change |-> [hits[1] EXCEPT !.signal_name = JoinChars(@)]])
       ELSE Evaluated(alert, NoTrigger)

\* the CONFIDENCE_CHANGE branch
EvaluateConfidenceChange(alert, live, store, day) ==
    LET signal_id == alert.conditions.signal_id
        changes == get_changes_since(store, live, GateDate(alert, day))
        hits == SelectSeq(changes.changed_confidence,
                          LAMBDA change : change.signal_id = signal_id)
    IN IF Truthy(signal_id) /\ signal_id \in IdsOf(live) /\ hits # << >>
       THEN Fired(alert, day,
                  [trigger_reason |->
                      "Signal " \o JoinChars(hits[1].signal_name)
                         \o " changed confidence from " \o hits[1].old_confidence
                         \o " to " \o hits[1].new_confidence,
                   signal_id |-> signal_id,
                   change |-> [hits[1] EXCEPT !.signal_name = JoinChars(@)]])
       ELSE Evaluated(alert, NoTrigger)

ConflictsListed == 5   \* conflicts[:5]
StaleListed == 10      \* stale_signals[:10]

\* xs[:n]
FirstN(xs, n) == SubSeq(xs, 1, IF Len(xs) < n THEN Len(xs) ELSE n)

\* a NEW_CONFLICT branch that fires only for an alert that has not fired before
EvaluateNewConflictOnce(alert, live, day) ==
    LET market == alert.conditions.market
        all == detect_conflicts(live)
        conflicts ==
            IF Truthy(market) THEN SelectSeq(all, LAMBDA c : c.market = market)
            ELSE all
    IN IF conflicts # << >> /\ alert.last_triggered = NoDate
       THEN Fired(alert, day,
                  [trigger_reason |-> ToString(Len(conflicts)) \o " conflict(s) detected",
                   conflicts |-> FirstN(conflicts, ConflictsListed)])
       ELSE Evaluated(alert, NoTrigger)

\* the NEW_CONFLICT branch
EvaluateNewConflict(alert, live, day) ==
    LET market == alert.conditions.market
        all == detect_conflicts(live)
        conflicts ==
            IF Truthy(market) THEN SelectSeq(all, LAMBDA c : c.market = market)
            ELSE all
    IN IF conflicts # << >>
       THEN Fired(alert, day,
                  [trigger_reason |-> ToString(Len(conflicts)) \o " conflict(s) detected",
                   conflicts |-> FirstN(conflicts, ConflictsListed)])
       ELSE Evaluated(alert, NoTrigger)

\* the REGIME_TRANSITION branch
EvaluateRegimeTransition(alert, live, history, day) ==
    LET current_regime == detect_regime(live, day)
        previous_regime == get_regime_at_date(history, day - 1)
        transition == detect_regime_transition(current_regime, previous_regime)
    IN IF transition # NoTransition
       THEN Fired(alert, day,
                  [trigger_reason |-> transition.description,
                   transition |-> transition])
       ELSE Evaluated(alert, NoTrigger)

StaleEntry(s, day) ==
    [signal_id |-> s.signal_id, signal_name |-> JoinChars(s.name), market |-> s.market,
     age_days |-> AgeDays(s, day)]

\* the STALE_SIGNAL branch
EvaluateStaleSignal(alert, live, day) ==
    LET market == alert.conditions.market
        stale == SelectSeq(live, LAMBDA s : IsStale(s, day))
        stale_signals ==
            IF Truthy(market) THEN SelectSeq(stale, LAMBDA s : s.market = market)
            ELSE stale
        listed == FirstN(stale_signals, StaleListed)
    IN IF stale_signals # << >>
       THEN Fired(alert, day,
                  [trigger_reason |->
                      ToString(Len(stale_signals)) \o " stale signal(s) detected",
                   stale_signals |->
                      [i \in 1..Len(listed) |-> StaleEntry(listed[i], day)]])
       ELSE Evaluated(alert, NoTrigger)

\* the if/elif chain over alert.alert_type
EvaluateByType(alert, live, store, history, day) ==
    CASE alert.alert_type = "direction_change" ->
            EvaluateDirectionChange(alert, live, store, day)
      [] alert.alert_type = "confidence_change" ->
            EvaluateConfidenceChange(alert, live, store, day)
      [] alert.alert_type = "new_conflict" -> EvaluateNewConflict(alert, live, day)
      [] alert.alert_type = "regime_transition" ->
            EvaluateRegimeTransition(alert, live, history, day)
      [] alert.alert_type = "stale_signal" -> EvaluateStaleSignal(alert, live, day)
      [] OTHER -> Evaluated(alert, NoTrigger)

\* loaded is the call of get_all_signals() at line 54, which an enabled alert
\* reaches: the exception it raises ends the evaluation, the alert as it was
evaluate_alert(alert, loaded, store, history, day) ==
    IF ~alert.enabled THEN Evaluated(alert, NoTrigger)
    ELSE IF loaded.raises THEN Evaluated(alert, Raised)
    ELSE EvaluateByType(alert, loaded.cached, store, history, day)

RECURSIVE evaluate_all_alerts(_, _, _, _, _)
\* the loop over _alerts.values(): [table, triggered, raises], the table with
\* the alerts as the evaluations left them. Nothing catches the exception of an
\* evaluation: it ends the loop and the call, and the payloads collected so far
\* are not returned
evaluate_all_alerts(table, loaded, store, history, day) ==
    IF table = << >> THEN [table |-> << >>, triggered |-> << >>, raises |-> FALSE]
    ELSE LET alert == Head(table)
             result == IF alert.enabled
                       THEN evaluate_alert(alert, loaded, store, history, day)
                       ELSE Evaluated(alert, NoTrigger)
             rest == evaluate_all_alerts(Tail(table), loaded, store, history, day)
         IN IF result.ret = Raised
            THEN [table |-> table, triggered |-> << >>, raises |-> TRUE]
            ELSE [table |-> <<result.alert>> \o rest.table,
                  triggered |->
                     IF rest.raises THEN << >>
                     ELSE (IF result.ret.triggered THEN <<result.ret>> ELSE << >>)
                             \o rest.triggered,
                  raises |-> rest.raises]

----------------------------------------------------------------------------
(* The alert table as a state machine *)

MaxAlerts == 2        \* alerts created per behaviour
MaxAlertEvents == 2   \* snapshots and signal saves per behaviour

\* models.Signal with every field the alert evaluation reads
LoadedSignal(id, mkt, cat, nm, dir, conf, vw, st, updated) ==
    [signal_id |-> id, version |-> "v1", market |-> mkt, category |-> cat,
     name |-> nm, direction |-> dir, confidence |-> conf, validity_window |-> vw,
     signal_type |-> st, last_updated |-> updated, score |-> NoScore]

\* registry.SIGNAL_REGISTRY: the metadata of three signals of the live list
LoadedRegistrySignal(id, dir, conf, updated) ==
    CASE id = "a" ->
            LoadedSignal(id, "WTI Crude Oil", Technical, <<"R", "S", "I">>,
                         dir, conf, "daily", "tactical", updated)
      [] id = "b" ->
            LoadedSignal(id, "Gold", Macro,
                         <<"U", "S", "D", " ", "T", "r", "e", "n", "d">>,
                         dir, conf, "weekly", "structural", updated)
      [] id = "c" ->
            LoadedSignal(id, "WTI Crude Oil", Fundamental,
                         <<"C", "r", "u", "d", "e", " ", "I", "n", "v", "e", "n",
                           "t", "o", "r", "i", "e", "s">>,
                         dir, conf, "weekly", "structural", updated)

\* the day the alert behaviours play on: the last calendar date
AlertDay == MaxDate

\* the signal get_all_signals_db loads from the row save_signal writes for the
\* signal: the row holds the score given or, when none is given, the score
\* calculate_signal_score computes, and the other fields as they are
SavedSignal(signal) ==
    [signal EXCEPT !.score = IF @ = NoScore THEN calculate_signal_score(signal) ELSE @]

\* the live list at the start when it is loaded from the database: a is a day
\* past its window, b is exactly at the end of its window, c is a day past its
\* window
AlertLive ==
    <<SavedSignal(LoadedRegistrySignal("a", "Bullish", "High", AlertDay - 3)),
      SavedSignal(LoadedRegistrySignal("b", "Bearish", "Medium", AlertDay - 8)),
      SavedSignal(LoadedRegistrySignal("c", "Bearish", "High", AlertDay - 9))>>

\* an entry of signals.json: the file gives neither last_updated nor a score
FileSignal(id, dir, conf) == LoadedRegistrySignal(id, dir, conf, NoDate)

\* signals.json at the start
AlertFile ==
    <<FileSignal("a", "Bullish", "High"), FileSignal("b", "Bearish", "Medium"),
      FileSignal("c", "Bearish", "High")>>

\* the day signals.json was last loaded when the behaviour starts: a is then a
\* day past its window, b and c are inside theirs
FileLoadDay == AlertDay - 3

\* the regime history at the start: nothing stored, or yesterday's regime
StoredRegime(type, d) == [regime_type |-> type, detected_date |-> d]

RegimeHistories ==
    {<< >>, <<StoredRegime("uncertain", AlertDay - 1)>>,
     <<StoredRegime("risk_off", AlertDay - 1)>>}

\* the alerts a client sends: al02 comes enabled and disabled, the other ids
\* with one body each
AlertPool ==
    <<Alert("al02", "direction_change", "n02", Conditions("a", NoneValue), TRUE, NoDate),
      Alert("al02", "direction_change", "n02", Conditions("a", NoneValue), FALSE, NoDate),
      Alert("al03", "direction_change", "n03", Conditions("a", NoneValue), TRUE, AlertDay),
      Alert("al04", "direction_change", "n04", Conditions(NoneValue, NoneValue), TRUE,
            NoDate),
      Alert("al05", "confidence_change", "n05", Conditions("a", NoneValue), TRUE, NoDate),
      Alert("al06", "confidence_change", "n06", Conditions("z", NoneValue), TRUE, NoDate),
      Alert("al07", "new_conflict", "n07", Conditions(NoneValue, NoneValue), TRUE, NoDate),
      Alert("al08", "regime_transition", "n08", Conditions(NoneValue, NoneValue), TRUE,
            NoDate),
      Alert("al09", "stale_signal", "n09", Conditions(NoneValue, "Gold"), TRUE, NoDate),
      Alert("al10", "stale_signal", "n10", Conditions(NoneValue, NoneValue), FALSE,
            NoDate),
      Alert("al11", "stale_signal", "n11", Conditions(NoneValue, NoneValue), TRUE,
            NoDate),
      Alert("al12", "new_conflict", "n12", Conditions(NoneValue, "Gold"), TRUE, NoDate)>>

\* the loader has answered a first call: from the rows of the database, or
\* from signals.json on FileLoadDay (USE_DATABASE is not set, or the database
\* did not answer)
InitAlerts ==
    /\ load_from_db \in BOOLEAN
    /\ db_signals = AlertLive
    /\ signals_file = SignalsFile(AlertFile, 1)
    /\ cached_signals = IF load_from_db THEN AlertLive
                        ELSE LoadSignalsFromFile(signals_file, FileLoadDay).signals
    /\ cached_file_mtime = IF load_from_db THEN 0 ELSE signals_file.mtime
    /\ snapshots = << >>
    /\ alerts = << >>
    /\ today = AlertDay
    /\ regime_history \in RegimeHistories
    /\ last = Call("none", << >>, << >>)
    /\ nSnap = 0
    /\ nEdit = 0
    /\ cd_signals = << >>
    /\ cd_conflicts = NoConflictCall
    /\ audit_log = << >>
    /\ audit_clock = 0
    /\ nLogged = 0
    /\ writer = Idle
    /\ reader = Idle
    /\ evaluators = << >>

\* an evaluation has been made; the behaviour then only evaluates
AlertsEvaluated == last.op \in {"evaluate_alert", "evaluate_all_alerts"}

\* the place of the alert with the id in the table, 0 when the id is not a key
AlertIndex(table, alert_id) ==
    IF \E i \in 1..Len(table) : table[i].alert_id = alert_id
    THEN CHOOSE i \in 1..Len(table) : table[i].alert_id = alert_id
    ELSE 0

\* _alerts[alert_id] = alert: the value of a key of the dict is replaced where
\* it is, a new key goes last
AlertsSet(table, alert_id, alert) ==
    IF AlertIndex(table, alert_id) # 0
    THEN [table EXCEPT ![AlertIndex(table, alert_id)] = alert]
    ELSE Append(table, alert)

\* del _alerts[alert_id]
AlertsDel(table, alert_id) == SelectSeq(table, LAMBDA a : a.alert_id # alert_id)

\* create_alert(AlertPool[k]): _alerts[alert.alert_id] = alert, whether or not
\* the id is in use; the table holds at most MaxAlerts alerts
CreateAlert(k) ==
    /\ AlertIndex(alerts, AlertPool[k].alert_id) # 0 \/ Len(alerts) < MaxAlerts
    /\ alerts' = AlertsSet(alerts, AlertPool[k].alert_id, AlertPool[k])
    /\ UNCHANGED <<cached_signals, snapshots, last, nSnap, nEdit, cd_signals,
                 cd_conflicts, today, regime_history,
                 audit_log, audit_clock, nLogged,
                 writer, reader, evaluators,
                 signals_file, cached_file_mtime, load_from_db,
                 db_signals>>

\* update_alert(alert_id, AlertPool[k]) as update_alert_endpoint calls it, with
\* the id of the body: None and no change when the id is not in the table
UpdateAlert(k) ==
    /\ alerts' = IF AlertIndex(alerts, AlertPool[k].alert_id) = 0 THEN alerts
                 ELSE AlertsSet(alerts, AlertPool[k].alert_id, AlertPool[k])
    /\ UNCHANGED <<cached_signals, snapshots, last, nSnap, nEdit, cd_signals,
                 cd_conflicts, today, regime_history,
                 audit_log, audit_clock, nLogged,
                 writer, reader, evaluators,
                 signals_file, cached_file_mtime, load_from_db,
                 db_signals>>

\* delete_alert(alert_id): False and no change when the id is not in the table
DeleteAlert(alert_id) ==
    /\ alerts' = AlertsDel(alerts, alert_id)
    /\ UNCHANGED <<cached_signals, snapshots, last, nSnap, nEdit, cd_signals,
                 cd_conflicts, today, regime_history,
                 audit_log, audit_clock, nLogged,
                 writer, reader, evaluators,
                 signals_file, cached_file_mtime, load_from_db,
                 db_signals>>

\* the first place of the pool that holds an alert with the id
PoolRank(alert_id) ==
    CHOOSE k \in 1..Len(AlertPool) :
        /\ AlertPool[k].alert_id = alert_id
        /\ \A j \in 1..(k - 1) : AlertPool[j].alert_id # alert_id

\* before the first evaluation the client creates alerts in the order of the
\* pool, or sends an alert again whose id is in the table
CreateNextAlert(k) ==
    /\ ~AlertsEvaluated
    /\ \/ AlertIndex(alerts, AlertPool[k].alert_id) # 0
       \/ \A i \in 1..Len(alerts) :
             PoolRank(alerts[i].alert_id) < PoolRank(AlertPool[k].alert_id)
    /\ CreateAlert(k)

\* create_daily_snapshot(d) between evaluations; nothing is stored when
\* get_all_signals() raises
SnapshotForAlerts(d) ==
    /\ GetAllSignals
    /\ snapshots' = IF ProviderRaises THEN snapshots
                    ELSE StoreSnapshots(snapshots, LiveSignals, d)
    /\ nSnap' = nSnap + 1
    /\ UNCHANGED <<last, nEdit, cd_signals, cd_conflicts, alerts,
                 today, regime_history,
                 audit_log, audit_clock, nLogged,
                 writer, reader, evaluators,
                 signals_file, load_from_db,
                 db_signals>>

\* save_signal stores a recomputed signal a, direction and confidence as
\* given, last_updated today, with the score computed for the row since none
\* is given
RecomputeSignal(dir, conf) ==
    /\ SavedSignal(LoadedRegistrySignal("a", dir, conf, today)) \notin Range(db_signals)
    /\ SaveSignal(SavedSignal(LoadedRegistrySignal("a", dir, conf, today)))

\* signals.json is written, with signals_data in it, later than it was last
\* written
EditSignalsFile(signals_data) ==
    /\ signals_file' = SignalsFile(signals_data, signals_file.mtime + 1)
    /\ nEdit' = nEdit + 1
    /\ UNCHANGED <<cached_signals, snapshots, last, nSnap, cd_signals, cd_conflicts,
                 alerts, today, regime_history,
                 audit_log, audit_clock, nLogged,
                 writer, reader, evaluators,
                 cached_file_mtime, load_from_db,
                 db_signals>>

\* signals.json is removed; the time of its last write is kept for the write
\* that brings it back
RemoveSignalsFile ==
    /\ signals_file.exists
    /\ signals_file' = [NoSignalsFile EXCEPT !.mtime = signals_file.mtime]
    /\ nEdit' = nEdit + 1
    /\ last' = Call("remove_file", << >>, << >>)
    /\ UNCHANGED <<cached_signals, snapshots, nSnap, cd_signals, cd_conflicts,
                 alerts, today, regime_history,
                 audit_log, audit_clock, nLogged,
                 writer, reader, evaluators,
                 cached_file_mtime, load_from_db,
                 db_signals>>

\* the database stops answering: from now on the try block of
\* get_all_signals() raises and the call goes on with signals.json
DatabaseFails ==
    /\ load_from_db
    /\ load_from_db' = FALSE
    /\ nEdit' = nEdit + 1
    /\ last' = Call("database_fails", << >>, << >>)
    /\ UNCHANGED <<cached_signals, snapshots, nSnap, cd_signals, cd_conflicts,
                 alerts, today, regime_history,
                 audit_log, audit_clock, nLogged,
                 writer, reader, evaluators,
                 signals_file, cached_file_mtime,
                 db_signals>>

\* the database answers again, USE_DATABASE being set: get_all_signals()
\* returns the cached list, whatever it was loaded from
DatabaseAnswers ==
    /\ ~load_from_db
    /\ load_from_db' = TRUE
    /\ nEdit' = nEdit + 1
    /\ last' = Call("database_answers", << >>, << >>)
    /\ UNCHANGED <<cached_signals, snapshots, nSnap, cd_signals, cd_conflicts,
                 alerts, today, regime_history,
                 audit_log, audit_clock, nLogged,
                 writer, reader, evaluators,
                 signals_file, cached_file_mtime,
                 db_signals>>

\* signals.json with the signals it holds, a having the direction and the
\* confidence given
FileWith(dir, conf) ==
    [AlertFile EXCEPT ![1] = FileSignal("a", dir, conf)]

\* evaluate_alert(_alerts[id]) on the i-th alert of the table, a first time or
\* right after a first evaluation that fired
EvaluateAlert(i) ==
    /\ i \in 1..Len(alerts)
    /\ \/ ~AlertsEvaluated
       \/ last.op = "evaluate_alert" /\ last.args = <<i, 1>> /\ last.ret.triggered
    /\ LET result == evaluate_alert(alerts[i], SignalsCall, snapshots,
                                    regime_history, today)
           args == <<i, IF AlertsEvaluated THEN 2 ELSE 1>>
       IN /\ alerts' = [alerts EXCEPT ![i] = result.alert]
          /\ last' = IF result.ret = Raised THEN Raise("evaluate_alert", args)
                     ELSE Call("evaluate_alert", args, result.ret)
    /\ IF alerts[i].enabled THEN GetAllSignals
       ELSE UNCHANGED <<cached_signals, cached_file_mtime>>
    /\ UNCHANGED <<snapshots, nSnap, nEdit, cd_signals, cd_conflicts,
                 today, regime_history,
                 audit_log, audit_clock, nLogged,
                 writer, reader, evaluators,
                 signals_file, load_from_db,
                 db_signals>>

EvaluateAllAlerts ==
    /\ ~AlertsEvaluated
    /\ alerts # << >>
    /\ LET result == evaluate_all_alerts(alerts, SignalsCall, snapshots,
                                         regime_history, today)
       IN /\ alerts' = result.table
          /\ last' = IF result.raises THEN Raise("evaluate_all_alerts", << >>)
                     ELSE Call("evaluate_all_alerts", << >>, result.triggered)
    /\ IF \E i \in 1..Len(alerts) : alerts[i].enabled THEN GetAllSignals
       ELSE UNCHANGED <<cached_signals, cached_file_mtime>>
    /\ UNCHANGED <<snapshots, nSnap, nEdit, cd_signals, cd_conflicts,
                 today, regime_history,
                 audit_log, audit_clock, nLogged,
                 writer, reader, evaluators,
                 signals_file, load_from_db,
                 db_signals>>

RecomputeChoices ==
    {<<"Bearish", "High">>, <<"Bullish", "Low">>}

\* what signals.json says of a when it is written: the direction or the
\* confidence is changed
FileChoices == RecomputeChoices

\* the events between the creation of the alerts and their evaluation: at
\* most MaxAlertEvents snapshots, saved rows and writes of signals.json, and
\* none once an evaluation has been made
AlertEvent ==
    /\ last.op \in {"none", "save_signal", "reload"}
    /\ nSnap + nEdit < MaxAlertEvents

\* signals.json is what get_all_signals() reads; what happens to the file
\* while the database answers is left out
FileRead == ~load_from_db

\* a row has been saved and reload_signals() has not been called since: the
\* call comes next
Saved == last.op = "save_signal"

NextAlerts ==
    \/ \E k \in 1..Len(AlertPool) : CreateNextAlert(k)
    \/ AlertEvent /\ ~Saved /\ \E d \in {AlertDay - 1, AlertDay} : SnapshotForAlerts(d)
    \/ AlertEvent /\ ~Saved /\ DatabaseRead
          /\ \E c \in RecomputeChoices : RecomputeSignal(c[1], c[2])
    \/ Saved /\ ReloadSignals
    \/ AlertEvent /\ FileRead /\ \E c \in FileChoices : EditSignalsFile(FileWith(c[1], c[2]))
    \/ AlertEvent /\ FileRead /\ RemoveSignalsFile
    \/ AlertEvent /\ ~Saved /\ DatabaseFails
    \/ AlertEvent /\ DatabaseAnswers
    \/ ~Saved /\ \E i \in 1..MaxAlerts : EvaluateAlert(i)
    \/ ~Saved /\ EvaluateAllAlerts

SpecAlerts == InitAlerts /\ [][NextAlerts]_vars

\* the alert table under create, update and delete of any alert in any order,
\* before and after evaluations
NextAlertTable ==
    \/ \E k \in 1..Len(AlertPool) : CreateAlert(k)
    \/ \E k \in 1..Len(AlertPool) : UpdateAlert(k)
    \/ \E k \in 1..Len(AlertPool) : DeleteAlert(AlertPool[k].alert_id)
    \/ \E i \in 1..MaxAlerts : EvaluateAlert(i)
    \/ EvaluateAllAlerts

SpecAlertTable == InitAlerts /\ [][NextAlertTable]_vars

\* the step is a call of evaluate_alert
EvaluateAlertStep == last'.op = "evaluate_alert" /\ last' # last

\* the step is a call of evaluate_all_alerts
EvaluateAllStep == last'.op = "evaluate_all_alerts" /\ last' # last

\* C17: evaluate_alert returns a trigger payload exactly when it sets the alert's
\* last_triggered to today; when it returns none, or ends with the exception of
\* get_all_signals(), the alert is left as it was; and it never changes the rest
\* of the alert table, the snapshot store or the live signals: signals.json is
\* left as it was and get_all_signals() gives after the call what it gave the
\* call.
C17_EvaluateFrame ==
    [][ EvaluateAlertStep =>
          LET i == last'.args[1]
          IN /\ last'.ret.triggered =>
                   alerts' = [alerts EXCEPT ![i].last_triggered = today]
             /\ ~last'.ret.triggered => alerts' = alerts
             /\ alerts' # alerts => last'.ret.triggered
             /\ snapshots' = snapshots
             /\ signals_file' = signals_file
             /\ LiveSignals' = LiveSignals ]_vars

C17_Witness ==
    /\ last.op = "evaluate_alert"
    /\ last.ret.triggered
    /\ Len(alerts) = 2
    /\ last.args = <<2, 1>>
    /\ alerts[2].alert_type = "regime_transition"
    /\ alerts[2].last_triggered = today
    /\ alerts[1].last_triggered = NoDate
    /\ snapshots # << >>

\* the payloads of the alerts of the table that are enabled and whose evaluation
\* fires, in table order
FiredPayloads(table, live, store, history, day) ==
    LET fires(a) == a.enabled /\ EvaluateByType(a, live, store, history, day).ret.triggered
        fired == SelectSeq(table, fires)
    IN [k \in 1..Len(fired) |-> EvaluateByType(fired[k], live, store, history, day).ret]

\* C18 as stated: evaluate_alert on a disabled alert returns none and leaves
\* last_triggered as it was whatever the signals are, and evaluate_all_alerts
\* returns a list with one payload for each enabled alert of the table whose
\* evaluation fires, in table order, and nothing for the disabled alerts and for
\* those that do not fire.
C18_DisabledSkipped ==
    [][ /\ (EvaluateAlertStep /\ ~alerts[last'.args[1]].enabled) =>
              /\ last'.ret = NoTrigger
              /\ alerts' = alerts
        /\ EvaluateAllStep =>
              /\ ~last'.raised
              /\ last'.ret = FiredPayloads(alerts, LiveSignals, snapshots,
                                           regime_history, today)
              /\ \A i \in 1..Len(alerts) :
                    ~alerts[i].enabled => alerts'[i] = alerts[i] ]_vars

\* the bucket of get_changes_since an alert of the type looks at
ChangeBucket(alert_type, changes) ==
    IF alert_type = "direction_change" THEN changes.changed_direction
    ELSE changes.changed_confidence

\* C19 as stated: an enabled direction_change (confidence_change) alert on
\* signal_id s fires exactly when the changed_direction (changed_confidence)
\* bucket of the changes since g has an entry for s, g being the alert's
\* last_triggered if it has one and yesterday otherwise; with a signal_id that is
\* not in the live list it returns none, and without a signal_id it returns none
\* whatever the live list is and whether or not there is one.
C19_ChangeAlerts ==
    [][ (/\ EvaluateAlertStep
         /\ alerts[last'.args[1]].enabled
         /\ alerts[last'.args[1]].alert_type \in {"direction_change", "confidence_change"})
        => LET alert == alerts[last'.args[1]]
               s == alert.conditions.signal_id
               g == IF alert.last_triggered # NoDate THEN alert.last_triggered
                    ELSE today - 1
               bucket == ChangeBucket(alert.alert_type,
                                      get_changes_since(snapshots, LiveSignals, g))
           IN IF s = NoneValue THEN last'.ret = NoTrigger
              ELSE IF last'.raised THEN TRUE
              ELSE IF s \notin IdsOf(LiveSignals) THEN last'.ret = NoTrigger
              ELSE last'.ret.triggered <=>
                      \E k \in 1..Len(bucket) : bucket[k].signal_id = s ]_vars

----------------------------------------------------------------------------
(* stale_signal alerts over long live lists *)

MaxLoaded == 11       \* length of the live list
MaxFresh == 1         \* signals of the live list still inside their window
MaxOtherMarket == 1   \* signals of the live list outside the filtered market

\* the n-th signal the provider loads: market, validity window and age as given
NthSignal(n, mkt, vw, age) ==
    LoadedSignal("s" \o ToString(n), mkt, Technical, <<"R", "S", "I">>,
                 "Bullish", "High", vw, "tactical", AlertDay - age)

\* the kinds of signal loaded: a daily WTI signal a day past its window, a
\* daily WTI signal on the last day of its window, a weekly Gold signal a day
\* past its window
LoadKinds ==
    {<<"WTI Crude Oil", "daily", 3>>, <<"WTI Crude Oil", "daily", 2>>,
     <<"Gold", "weekly", 9>>}

StaleAlerts ==
    {Alert("st01", "stale_signal", "stale", Conditions(NoneValue, NoneValue), TRUE, NoDate),
     Alert("st02", "stale_signal", "stale WTI", Conditions(NoneValue, "WTI Crude Oil"),
           TRUE, NoDate)}

\* signals.json of the stale-signal behaviours: two daily WTI signals and a
\* weekly Gold signal
StaleFile ==
    <<[NthSignal(1, "WTI Crude Oil", "daily", 0) EXCEPT !.last_updated = NoDate],
      [NthSignal(2, "WTI Crude Oil", "daily", 0) EXCEPT !.last_updated = NoDate],
      [NthSignal(3, "Gold", "weekly", 0) EXCEPT !.last_updated = NoDate]>>

\* the rows of an empty database, or signals.json as it was loaded on
\* FileLoadDay
InitStale ==
    /\ load_from_db \in BOOLEAN
    /\ db_signals = << >>
    /\ signals_file = SignalsFile(StaleFile, 1)
    /\ cached_signals = IF load_from_db THEN << >>
                        ELSE LoadSignalsFromFile(signals_file, FileLoadDay).signals
    /\ cached_file_mtime = IF load_from_db THEN 0 ELSE signals_file.mtime
    /\ snapshots = << >>
    /\ alerts \in {<<a>> : a \in StaleAlerts}
    /\ today = AlertDay
    /\ regime_history = << >>
    /\ last = Call("none", << >>, << >>)
    /\ nSnap = 0
    /\ nEdit = 0
    /\ cd_signals = << >>
    /\ cd_conflicts = NoConflictCall
    /\ audit_log = << >>
    /\ audit_clock = 0
    /\ nLogged = 0
    /\ writer = Idle
    /\ reader = Idle
    /\ evaluators = << >>

CountWhere(sigs, P(_)) == Cardinality({i \in 1..Len(sigs) : P(sigs[i])})

\* save_signal stores one more signal, last updated age days ago, with the
\* score computed for the row since none is given
LoadSignal(mkt, vw, age) ==
    /\ ~AlertsEvaluated
    /\ Len(db_signals) < MaxLoaded
    /\ age <= StaleAfter(vw) =>
          CountWhere(db_signals, LAMBDA s : ~IsStale(s, today)) < MaxFresh
    /\ mkt # "WTI Crude Oil" =>
          CountWhere(db_signals, LAMBDA s : s.market # "WTI Crude Oil")
             < MaxOtherMarket
    /\ SaveSignal(SavedSignal(NthSignal(Len(db_signals) + 1, mkt, vw, age)))

\* reload_signals() is called once a row has been saved, and, when
\* signals.json is read, before the evaluation, where the call raises or loads
\* a list other than the cached one
Reloading ==
    \/ Pending
    \/ /\ ~AlertsEvaluated
       /\ FileRead
       /\ reload_signals.raises \/ reload_signals.cached # cached_signals

NextStale ==
    \/ DatabaseRead /\ ~Pending /\ \E k \in LoadKinds : LoadSignal(k[1], k[2], k[3])
    \/ Reloading /\ ReloadSignals
    \/ AlertEvent /\ FileRead /\ EditSignalsFile(StaleFile)
    \/ AlertEvent /\ FileRead /\ RemoveSignalsFile
    \/ AlertEvent /\ DatabaseFails
    \/ AlertEvent /\ DatabaseAnswers
    \/ ~Pending /\ ~AlertsEvaluated /\ EvaluateAlert(1)

SpecStale == InitStale /\ [][NextStale]_vars

\* the age of the signal exceeds the threshold of its validity window
PastWindow(s) ==
    LET age == today - s.last_updated
    IN CASE s.validity_window = "intraday" -> age > 1
         [] s.validity_window = "daily" -> age > 2
         [] s.validity_window = "weekly" -> age > 8
         [] s.validity_window = "structural" -> age > 30
         [] OTHER -> age > 7

\* the positions of the live list whose signal is stale and passes the market
\* filter of the alert
MatchingStale(alert) ==
    {i \in 1..Len(cached_signals) :
        /\ PastWindow(cached_signals[i])
        /\ alert.conditions.market # NoneValue =>
              cached_signals[i].market = alert.conditions.market}

\* the signal ids a trigger payload lists
ReferencedIds(ret) == {ret.stale_signals[k].signal_id : k \in 1..Len(ret.stale_signals)}

\* the evaluation of an enabled stale_signal alert has returned
StaleEvaluated ==
    /\ Returned("evaluate_alert")
    /\ alerts[last.args[1]].enabled
    /\ alerts[last.args[1]].alert_type = "stale_signal"

\* C20 as stated: an enabled stale_signal alert evaluated on a live list of which
\* some signal that passes the market filter is stale returns a trigger that references every
\* such signal and no other, however many there are, and sets last_triggered to
\* today; when there is none it returns none.
C20_StaleExactly ==
    StaleEvaluated =>
        LET alert == alerts[last.args[1]]
            matching == MatchingStale(alert)
        IN IF matching = {} THEN last.ret = NoTrigger
           ELSE /\ last.ret.triggered
                /\ ReferencedIds(last.ret) =
                      {cached_signals[i].signal_id : i \in matching}
                /\ alert.last_triggered = today

\* C20 amended: evaluated on a live list, the alert fires when some signal that
\* passes the market filter is stale; the trigger lists, in live order, the
\* first ten stale signals that pass the market filter (all of them when there
\* are at most ten) and no other signal, its reason counts all of them, and
\* last_triggered is set to today; when there is none the evaluation returns
\* none.
C20_StaleFirstTen ==
    StaleEvaluated =>
        LET alert == alerts[last.args[1]]
            matching == MatchingStale(alert)
            listed == {i \in matching :
                          Cardinality({j \in matching : j < i}) < 10}
        IN IF matching = {} THEN last.ret = NoTrigger
           ELSE /\ last.ret.triggered
                /\ Len(last.ret.stale_signals) = Cardinality(listed)
                /\ \A k \in 1..Len(last.ret.stale_signals) :
                      \E i \in listed :
                         /\ Cardinality({j \in listed : j < i}) = k - 1
                         /\ last.ret.stale_signals[k].signal_id =
                               cached_signals[i].signal_id
                         /\ last.ret.stale_signals[k].age_days =
                               today - cached_signals[i].last_updated
                /\ last.ret.trigger_reason =
                      ToString(Cardinality(matching)) \o " stale signal(s) detected"
                /\ alert.last_triggered = today

C20_Witness ==
    /\ StaleEvaluated
    /\ last.ret.triggered
    /\ Len(cached_signals) = 11
    /\ Cardinality(MatchingStale(alerts[1])) = 11
    /\ alerts[1].conditions.market = NoneValue
    /\ cached_signals[1].market = "Gold"
    /\ Len(last.ret.stale_signals) = 10
    /\ last.ret.trigger_reason = "11 stale signal(s) detected"

----------------------------------------------------------------------------
(* The snapshot store over the database, signals.json and their failures *)

\* a signal of the live list with every field the loader sets
ProviderSignal(id, ver, dir, conf, updated) ==
    [LoadedRegistrySignal(id, dir, conf, updated) EXCEPT !.version = ver]

\* the signal loaded from the row saved for it on the day
ProviderRow(id, ver, dir, conf, day) ==
    SavedSignal(ProviderSignal(id, ver, dir, conf, day))

\* an entry of signals.json
ProviderEntry(id, ver, dir, conf) == ProviderSignal(id, ver, dir, conf, NoDate)

\* the rows of the database at the start are the first few of these
SeedRows ==
    <<ProviderRow("a", "v1", "Bullish", "High", 1),
      ProviderRow("b", "v1", "Bearish", "Medium", 1)>>

\* the entries of signals.json at the start are the first few of these
SeedFile ==
    <<ProviderEntry("a", "v1", "Bullish", "High"),
      ProviderEntry("b", "v1", "Bearish", "Medium")>>

\* the loader has answered a first call: from the rows of the database, with
\* signals.json absent or present, or from signals.json the day before
InitProvider ==
    /\ today = MaxDate
    /\ load_from_db \in BOOLEAN
    /\ \E n \in 0..Len(SeedRows) :
          /\ db_signals = SubSeq(SeedRows, 1, n)
          /\ IF load_from_db
             THEN /\ cached_signals = db_signals
                  /\ cached_file_mtime = 0
                  /\ signals_file \in {NoSignalsFile, SignalsFile(SeedFile, 1)}
             ELSE /\ signals_file = SignalsFile(SubSeq(SeedFile, 1, n), 1)
                  /\ cached_signals = LoadSignalsFromFile(signals_file, today - 1).signals
                  /\ cached_file_mtime = signals_file.mtime
    /\ snapshots = << >>
    /\ last = Call("none", << >>, << >>)
    /\ nSnap = 0
    /\ nEdit = 0
    /\ cd_signals = << >>
    /\ cd_conflicts = NoConflictCall
    /\ alerts = << >>
    /\ regime_history = << >>
    /\ audit_log = << >>
    /\ audit_clock = 0
    /\ nLogged = 0
    /\ writer = Idle
    /\ reader = Idle
    /\ evaluators = << >>

\* save_signal stores the signal today, new or not, with the score computed
\* for the row
SaveRow(id, ver, dir, conf) ==
    /\ ProviderRow(id, ver, dir, conf, today) \notin Range(db_signals)
    /\ SaveSignal(ProviderRow(id, ver, dir, conf, today))

\* signals.json is written with the entry added, or put in the place of the
\* entry of that signal_id
SaveEntry(id, ver, dir, conf) ==
    /\ ProviderEvent
    /\ ~signals_file.exists
          \/ ProviderEntry(id, ver, dir, conf) \notin Range(signals_file.signals_data)
    /\ EditSignalsFile(Upsert(signals_file.signals_data,
                              ProviderEntry(id, ver, dir, conf)))

\* signals.json is written without the entry of the signal_id
DeleteEntry(id) ==
    /\ ProviderEvent
    /\ id \in IdsOf(signals_file.signals_data)
    /\ EditSignalsFile(SelectSeq(signals_file.signals_data,
                                 LAMBDA s : s.signal_id # id))

\* the direction and the confidence a row or an entry is saved with: those of
\* signal a at the start (only the version or the day of the row changes), or
\* the other direction (for signal b the confidence changes with either)
ProviderSettings ==
    {<<"Bullish", "High">>, <<"Bearish", "High">>}

\* reload_signals() is called where it raises or loads a list other than the
\* cached one
Reloads == reload_signals.raises \/ reload_signals.cached # cached_signals

\* as_of and changes_since are also called between a change of the table and
\* the reload_signals() that shows it, on the cached list as it was
NextProvider ==
    \/ RowEvent /\ \E id \in SignalIds, ver \in Versions, c \in ProviderSettings :
                       SaveRow(id, ver, c[1], c[2])
    \/ RowEvent /\ \E id \in SignalIds : DeleteSignalEndpoint(id, 1)
    \/ ~Observed /\ Reloads /\ ReloadSignals
    \/ \E id \in SignalIds, ver \in Versions, c \in ProviderSettings :
          SaveEntry(id, ver, c[1], c[2])
    \/ \E id \in SignalIds : DeleteEntry(id)
    \/ ProviderEvent /\ RemoveSignalsFile
    \/ ProviderEvent /\ DatabaseFails
    \/ ProviderEvent /\ DatabaseAnswers
    \/ ~Pending /\ \E d \in Dates : CreateDailySnapshot(d)
    \/ \E d \in Dates : GetSignalsAtDate(d)
    \/ \E d \in Dates : GetChangesSince(d)

SpecProvider == InitProvider /\ [][NextProvider]_vars

\* the provider gives a call of get_all_signals() made now what it gave the
\* snapshot call recorded in last: the same exception, or the list of the
\* signals that call stored
LiveAsSnapshotted ==
    IF last.raised THEN ProviderRaises
    ELSE ~ProviderRaises /\ CreatedSnapshots(SignalsCall.cached, last.args[1]) = last.ret

\* C3: a snapshot(d) that follows a snapshot(d) with no other call in between
\* and the live list as it was leaves the store as the first call left it, and
\* the store never holds two snapshots for one (signal_id, date) pair.
C3_SnapshotIdempotent ==
    [][ /\ UniqueKeys(snapshots')
        /\ (/\ last.op = "snapshot"
            /\ last'.op = "snapshot"
            /\ last'.args = last.args
            /\ nSnap' = nSnap + 1
            /\ LiveAsSnapshotted)
              => snapshots' = snapshots ]_vars

C3_Witness ==
    /\ Returned("snapshot")
    /\ nSnap = 2
    /\ LiveAsSnapshotted
    /\ snapshots = last.ret
    /\ snapshots # << >>

\* C4 as stated: as_of(d) returns the live list, and no error, when no snapshot
\* is dated <= d, and otherwise a non-empty list in which every signal is the
\* value of a stored snapshot dated <= d.
C4_AsOfFallback ==
    last.op = "as_of" =>
        IF EntriesUpTo(last.args[1]) = {}
        THEN ~last.raised /\ last.ret = cached_signals
        ELSE /\ ~last.raised
             /\ last.ret # << >>
             /\ \A i \in 1..Len(last.ret) :
                   \E e \in EntriesUpTo(last.args[1]) : e.signal = last.ret[i]

\* C5: when no snapshot is dated exactly d, a changes_since(d) that returns
\* reports every current signal in new_signals and nothing in the other three
\* buckets, whatever snapshots exist on earlier dates.
C5_ChangesSinceExactDate ==
    (Returned("changes_since") /\ EntriesOn(last.args[1]) = {}) =>
        /\ SignalIdList(last.ret.new_signals) = SignalIdList(cached_signals)
        /\ last.ret.removed_signals = << >>
        /\ last.ret.changed_direction = << >>
        /\ last.ret.changed_confidence = << >>

C5_Witness ==
    /\ Returned("changes_since")
    /\ EntriesOn(last.args[1]) = {}
    /\ \E e \in StoreEntries : e.snapshot_date < last.args[1]
    /\ cached_signals # << >>
    /\ Len(last.ret.new_signals) = Len(cached_signals)

\* C6 as stated: no signal identity appears in more than one of the four buckets
\* changes_since(d) returns.
C6_BucketsPairwiseDisjoint ==
    Returned("changes_since") =>
        LET new == Ids(last.ret.new_signals)
            removed == Ids(last.ret.removed_signals)
            dir == Ids(last.ret.changed_direction)
            conf == Ids(last.ret.changed_confidence)
        IN /\ new \cap removed = {}
           /\ new \cap dir = {}
           /\ new \cap conf = {}
           /\ removed \cap dir = {}
           /\ removed \cap conf = {}
           /\ dir \cap conf = {}

\* C6 amended: new_signals, removed_signals and the union of the two changed
\* buckets that changes_since(d) returns are pairwise disjoint; changed_direction
\* and changed_confidence may name the same identity.
C6_BucketsDisjointUpToChanged ==
    Returned("changes_since") =>
        LET new == Ids(last.ret.new_signals)
            removed == Ids(last.ret.removed_signals)
            changed == Ids(last.ret.changed_direction)
                          \cup Ids(last.ret.changed_confidence)
        IN /\ new \cap removed = {}
           /\ new \cap changed = {}
           /\ removed \cap changed = {}

C6_Witness ==
    /\ Returned("changes_since")
    /\ Ids(last.ret.changed_direction) \cap Ids(last.ret.changed_confidence) # {}
    /\ Ids(last.ret.new_signals) = {}

\* C7: relative to d every identity of the live list or of the snapshot of d is,
\* in what changes_since(d) returns, new (in new_signals only), removed (in
\* removed_signals only), or in both sets, and then listed in changed_direction
\* iff its direction differs and in changed_confidence iff its confidence
\* differs, and in no other bucket.
C7_DiffCompleteness ==
    Returned("changes_since") =>
        LET d == last.args[1]
            new == Ids(last.ret.new_signals)
            removed == Ids(last.ret.removed_signals)
            dir == Ids(last.ret.changed_direction)
            conf == Ids(last.ret.changed_confidence)
        IN /\ new \cup removed \cup dir \cup conf \subseteq LiveIds \cup HistoricalIds(d)
           /\ \A id \in LiveIds \cup HistoricalIds(d) :
                 IF id \notin HistoricalIds(d)
                 THEN id \in new /\ id \notin removed \cup dir \cup conf
                 ELSE IF id \notin LiveIds
                 THEN id \in removed /\ id \notin new \cup dir \cup conf
                 ELSE /\ id \notin new \cup removed
                      /\ id \in dir <=>
                            LiveSignal(id).direction # HistoricalSignal(d, id).direction
                      /\ id \in conf <=>
                            LiveSignal(id).confidence # HistoricalSignal(d, id).confidence

C7_Witness ==
    /\ Returned("changes_since")
    /\ \E id \in Ids(last.ret.changed_confidence) :
          /\ id \notin Ids(last.ret.changed_direction)
          /\ LiveSignal(id).direction = HistoricalSignal(last.args[1], id).direction

----------------------------------------------------------------------------
(* as_of, identity by identity *)

\* C24: when some snapshot is dated <= d, as_of(d) returns one signal for each
\* identity that has a snapshot dated <= d, the value of that identity's
\* snapshot of the greatest date <= d, and nothing for the identities whose
\* snapshots are all dated after d.
C24_LatestPerIdentity ==
    (last.op = "as_of" /\ EntriesUpTo(last.args[1]) # {}) =>
        LET d == last.args[1]
            ids == {e.signal_id : e \in EntriesUpTo(d)}
        IN /\ Ids(last.ret) = ids
           /\ Len(last.ret) = Cardinality(ids)
           /\ \A i \in 1..Len(last.ret) :
                 \E e \in EntriesUpTo(d) :
                    /\ e.signal = last.ret[i]
                    /\ \A o \in EntriesUpTo(d) :
                          o.signal_id = e.signal_id => o.snapshot_date <= e.snapshot_date

C24_Witness ==
    /\ last.op = "as_of"
    /\ last.args = <<2>>
    /\ Len(last.ret) = 2
    /\ \E e \in EntriesOn(1) : e.signal = last.ret[1]
    /\ \E e \in EntriesOn(2) : e.signal = last.ret[2]
    /\ \A e \in EntriesOn(2) : e.signal_id # last.ret[1].signal_id
    /\ \E e \in StoreEntries : e.snapshot_date = 1 /\ e.signal_id = last.ret[2].signal_id

----------------------------------------------------------------------------
(* Rules 2 and 3 of detect_conflicts on the lists of SpecOrder *)

\* the ids of the signals of the list that are in the market and have the
\* signal type and the direction
TypedIds(market, type, direction) ==
    {cd_signals[i].signal_id : i \in
        {k \in 1..Len(cd_signals) :
            /\ cd_signals[k].market = market
            /\ cd_signals[k].signal_type = type
            /\ cd_signals[k].direction = direction}}

\* both branches of Rule 2 hold in the market
BothBranches(market) ==
    /\ TypedIds(market, "structural", "Bullish") # {}
    /\ TypedIds(market, "tactical", "Bearish") # {}
    /\ TypedIds(market, "structural", "Bearish") # {}
    /\ TypedIds(market, "tactical", "Bullish") # {}

\* the positions of the result that hold a conflict of the type for the market
ConflictPositions(type, market) ==
    {i \in 1..Len(cd_conflicts.ret) :
        /\ cd_conflicts.ret[i].conflict_type = type
        /\ cd_conflicts.ret[i].market = market}

\* C25: detect_conflicts emits at most one structural_tactical_mismatch conflict
\* for a market; when both branches hold, the conflict is the first branch's: it
\* names the structural-type bullish and the tactical-type bearish signals of the
\* market and none of the mirror branch's.
C25_FirstMatchWins ==
    cd_conflicts.called =>
        \A market \in Markets :
            LET found == ConflictPositions("structural_tactical_mismatch", market)
            IN /\ Cardinality(found) <= 1
               /\ BothBranches(market) =>
                     /\ Cardinality(found) = 1
                     /\ \A i \in found :
                           /\ Range(cd_conflicts.ret[i].conflicting_signals) =
                                 TypedIds(market, "structural", "Bullish")
                                    \cup TypedIds(market, "tactical", "Bearish")
                           /\ cd_conflicts.ret[i].structural_vs_transient =
                                 "Structural bullish forces conflict with tactical bearish signals"

C25_Witness ==
    /\ cd_conflicts.called
    /\ BothBranches("Gold")
    /\ cd_signals[1].signal_type = "tactical"
    /\ cd_signals[1].direction = "Bullish"
    /\ Cardinality(ConflictPositions("structural_tactical_mismatch", "Gold")) = 1

\* the number of signals of the market in the validity windows with the direction
WindowCount(market, windows, direction) ==
    Cardinality({k \in 1..Len(cd_signals) :
                    /\ cd_signals[k].market = market
                    /\ cd_signals[k].validity_window \in windows
                    /\ cd_signals[k].direction = direction})

\* the majority between the bullish and the bearish signals of a group
NetDirection(market, windows) ==
    LET bullish == WindowCount(market, windows, "Bullish")
        bearish == WindowCount(market, windows, "Bearish")
    IN IF bullish > bearish THEN "Bullish"
       ELSE IF bearish > bullish THEN "Bearish"
       ELSE "Neutral"

\* C26: a timeframe_mismatch conflict is emitted for a market only when the
\* intraday/daily group and the structural group have opposing net directions,
\* the net direction of a group being the majority between its bullish and its
\* bearish signals.
C26_TimeframeNetDirections ==
    cd_conflicts.called =>
        \A market \in Markets :
            ConflictPositions("timeframe_mismatch", market) # {} =>
                LET short == NetDirection(market, {"intraday", "daily"})
                    structural == NetDirection(market, {"structural"})
                IN \/ short = "Bullish" /\ structural = "Bearish"
                   \/ short = "Bearish" /\ structural = "Bullish"

----------------------------------------------------------------------------
(* the pillar scores of a composite *)

\* direction value (+1, -1, 0) times confidence multiplier (1.0, 0.6, 0.3)
OnceWeighted(signal) ==
    LET multiplier == CASE signal.confidence = "High" -> FloatOne
                        [] signal.confidence = "Medium" -> MediumMultiplier
                        [] OTHER -> LowMultiplier
        value == CASE signal.direction = "Bullish" -> FloatOne
                   [] signal.direction = "Bearish" -> FloatMinusOne
                   [] OTHER -> FloatZero(0)
    IN FloatMul(value, multiplier)

\* the signals of the input list in the pillar
InputOfPillar(pillar) == SelectSeq(cd_signals, LAMBDA s : s.category = pillar)

\* C27: the score of a pillar of a composite is the mean, over the signals of the
\* pillar, of direction value times confidence multiplier, the confidence being
\* applied once; a pillar with a single medium-confidence bullish signal scores 0.6.
C27_ConfidenceOnce ==
    (last.op = "composite" /\ ~last.ret.is_none) =>
        \A k \in 1..Len(last.ret.pillar_breakdown) :
            LET entry == last.ret.pillar_breakdown[k]
                pillar_signals == InputOfPillar(entry.pillar)
            IN (\A i \in 1..Len(pillar_signals) : pillar_signals[i].score = NoScore) =>
                  entry.score =
                     Round3(FloatDiv(FloatSum([i \in 1..Len(pillar_signals) |->
                                                  OnceWeighted(pillar_signals[i])]),
                                     FloatOfInt(Len(pillar_signals))))

----------------------------------------------------------------------------
(* repeated evaluations of one alert *)

\* the step evaluates an alert again, right after its first evaluation
ReEvaluateStep == EvaluateAlertStep /\ last'.args[2] = 2

\* C28: an enabled new_conflict alert fires on every evaluation for which
\* detect_conflicts returns a conflict (of the configured market, when a market
\* is set) on the list get_all_signals() gives it, also right after it has fired
\* on the same conflicts, and returns none exactly when there is no such
\* conflict.
C28_NewConflictEveryTime ==
    [][ (/\ EvaluateAlertStep
         /\ ~last'.raised
         /\ alerts[last'.args[1]].enabled
         /\ alerts[last'.args[1]].alert_type = "new_conflict")
        => LET alert == alerts[last'.args[1]]
               found == detect_conflicts(LiveSignals)
               matching == {k \in 1..Len(found) :
                               alert.conditions.market # NoneValue =>
                                  found[k].market = alert.conditions.market}
           IN /\ last'.ret.triggered <=> matching # {}
              /\ last'.ret.triggered =>
                    last'.ret.trigger_reason =
                       ToString(Cardinality(matching)) \o " conflict(s) detected" ]_vars

C28_Witness ==
    /\ last.op = "evaluate_alert"
    /\ last.args[2] = 2
    /\ last.ret.triggered
    /\ alerts[last.args[1]].alert_type = "new_conflict"
    /\ alerts[last.args[1]].last_triggered = today
    /\ nEdit = 0

\* C29: evaluating a direction_change or confidence_change alert again right
\* after it fired, the live signals and the snapshot store being as they were,
\* does not fire it again.
C29_NoRefire ==
    [][ (/\ ReEvaluateStep
         /\ last.ret.triggered
         /\ alerts[last'.args[1]].alert_type \in {"direction_change", "confidence_change"})
        => ~last'.ret.triggered ]_vars

----------------------------------------------------------------------------
(* audit_log.py: get_audit_log *)

RECURSIVE SortNewestFirst(_)
\* list.sort(key=lambda e: e.timestamp, reverse=True): descending and stable,
\* entries of one timestamp keep their order
SortNewestFirst(entries) ==
    IF entries = << >> THEN << >>
    ELSE LET newest == CHOOSE t \in {entries[i].timestamp : i \in 1..Len(entries)} :
                          \A i \in 1..Len(entries) : entries[i].timestamp <= t
         IN SelectSeq(entries, LAMBDA e : e.timestamp = newest)
               \o SortNewestFirst(SelectSeq(entries, LAMBDA e : e.timestamp # newest))

\* the arguments of get_audit_log; NoneValue and NoDate stand for None
AuditFilter(entity_id, entity_type, change_type, start_date, end_date) ==
    [entity_id |-> entity_id, entity_type |-> entity_type, change_type |-> change_type,
     start_date |-> start_date, end_date |-> end_date]

\* no argument of get_audit_log is truthy: filtered stays the list _audit_log itself
Unfiltered(f) ==
    /\ ~Truthy(f.entity_id)
    /\ ~Truthy(f.entity_type)
    /\ ~Truthy(f.change_type)
    /\ f.start_date = NoDate
    /\ f.end_date = NoDate

\* the five list comprehensions
PassesFilter(e, f) ==
    /\ Truthy(f.entity_id) => e.entity_id = f.entity_id
    /\ Truthy(f.entity_type) => e.entity_type = f.entity_type
    /\ Truthy(f.change_type) => e.change_type = f.change_type
    /\ f.start_date # NoDate => TimestampDate(e.timestamp) >= f.start_date
    /\ f.end_date # NoDate => TimestampDate(e.timestamp) <= f.end_date

\* get_audit_log: the value returned, and the stored list after the call;
\* without a filter the list sorted in place is _audit_log itself
get_audit_log(log, f) ==
    LET filtered == SortNewestFirst(SelectSeq(log, LAMBDA e : PassesFilter(e, f)))
    IN [ret |-> [i \in 1..Len(filtered) |-> ToDict(filtered[i])],
        log |-> IF Unfiltered(f) THEN filtered ELSE log]

----------------------------------------------------------------------------
(* The audit log as a state machine *)

MaxLogged == 3        \* log_change calls per behaviour

\* the log after n log_change calls, the first half at tick 1, the rest at tick 2
LoggedEarlier(n) ==
    [i \in 1..n |->
        AuditLogEntry("signal_updated", "a", "signal", i, IF 2 * i <= n THEN 1 ELSE 2)]

\* the behaviour starts on an empty log, or on a log one entry short of the limit
EarlierCalls == {0, AuditLogLimit - 1}

InitAudit ==
    /\ nLogged \in EarlierCalls
    /\ audit_log = LoggedEarlier(nLogged)
    /\ audit_clock = IF nLogged = 0 THEN 0 ELSE 2
    /\ last = Call("none", << >>, << >>)
    /\ cached_signals = << >>
    /\ snapshots = << >>
    /\ nSnap = 0
    /\ nEdit = 0
    /\ cd_signals = << >>
    /\ cd_conflicts = NoConflictCall
    /\ alerts = << >>
    /\ today = 1
    /\ regime_history = << >>
    /\ writer = Idle
    /\ reader = Idle
    /\ evaluators = << >>
    /\ signals_file = NoSignalsFile
    /\ cached_file_mtime = 0
    /\ load_from_db = TRUE
    /\ db_signals = cached_signals

\* log_change(...), ticks after the latest call
LogChange(change_type, entity_id, entity_type, ticks) ==
    /\ \E n \in EarlierCalls : nLogged >= n /\ nLogged < n + MaxLogged
    /\ nLogged' = nLogged + 1
    /\ audit_clock' = audit_clock + ticks
    /\ audit_log' = LogAppend(audit_log,
                              AuditLogEntry(change_type, entity_id, entity_type,
                                            nLogged + 1, audit_clock + ticks))
    /\ last' = Call("log_change", <<nLogged + 1>>, << >>)
    /\ UNCHANGED <<cached_signals, snapshots, nSnap, nEdit, cd_signals, cd_conflicts,
                 alerts, today, regime_history, writer, reader, evaluators,
                 signals_file, cached_file_mtime, load_from_db,
                 db_signals>>

GetAuditLog(f) ==
    /\ LET result == get_audit_log(audit_log, f)
       IN /\ audit_log' = result.log
          /\ last' = Call("get_audit_log", <<f>>, result.ret)
    /\ UNCHANGED <<cached_signals, snapshots, nSnap, nEdit, cd_signals, cd_conflicts,
                 alerts, today, regime_history, audit_clock, nLogged,
                 writer, reader, evaluators,
                 signals_file, cached_file_mtime, load_from_db,
                 db_signals>>

\* the changes the routes log
LoggedChanges ==
    {<<"signal_updated", "a", "signal">>, <<"regime_changed", "current", "regime">>}

FilterChoices ==
    {AuditFilter(NoneValue, NoneValue, NoneValue, NoDate, NoDate),
     AuditFilter("a", "signal", NoneValue, NoDate, NoDate),
     AuditFilter(NoneValue, NoneValue, "regime_changed", NoDate, NoDate),
     AuditFilter(NoneValue, NoneValue, NoneValue, 2, NoDate),
     AuditFilter(NoneValue, NoneValue, NoneValue, NoDate, 2)}

NextAudit ==
    \/ \E c \in LoggedChanges : LogChange(c[1], c[2], c[3], 1)
    \/ \E f \in FilterChoices : GetAuditLog(f)

SpecAudit == InitAudit /\ [][NextAudit]_vars

\* the descriptions of the stored entries: the numbers of the calls that logged them
StoredCalls == {audit_log[i].description : i \in 1..Len(audit_log)}

\* C23: the stored log never holds more than 1000 entries, and once more than
\* 1000 entries have been logged it holds the 1000 most recently logged ones,
\* each log_change having evicted the oldest entry.
C23_RingOfNewest ==
    /\ Len(audit_log) <= AuditLogLimit
    /\ nLogged > AuditLogLimit =>
          StoredCalls = (nLogged - AuditLogLimit + 1)..nLogged

\* C30: get_audit_log, with any combination of filters and with none, leaves the
\* content and the order of the stored log as they were.
C30_ReadIsPure ==
    [][ (last'.op = "get_audit_log") => audit_log' = audit_log ]_vars

----------------------------------------------------------------------------
(* create_daily_snapshot and get_signals_at_date in two threads *)

\* the endpoints are plain functions, which the server runs in worker threads:
\* a call is a sequence of steps, one per loop iteration, and the steps of two
\* calls interleave; nothing is locked

\* no call has started yet
Quiet == writer = Idle /\ reader = Idle

InitRace ==
    /\ cached_signals = SeedSignals
    /\ snapshots = << >>
    /\ last = Call("none", << >>, << >>)
    /\ nSnap = 0
    /\ nEdit = 0
    /\ cd_signals = << >>
    /\ cd_conflicts = NoConflictCall
    /\ alerts = << >>
    /\ today = 1
    /\ regime_history = << >>
    /\ audit_log = << >>
    /\ audit_clock = 0
    /\ nLogged = 0
    /\ writer = Idle
    /\ reader = Idle
    /\ evaluators = << >>
    /\ signals_file = NoSignalsFile
    /\ cached_file_mtime = 0
    /\ load_from_db = TRUE
    /\ db_signals = cached_signals

\* create_daily_snapshot(d) up to the loop: signals = get_all_signals()
BeginSnapshot(d) ==
    /\ writer = Idle
    /\ GetAllSignals
    /\ writer' = IF ProviderRaises THEN writer
                 ELSE [pc |-> IF SignalsCall.cached = << >> THEN "done" ELSE "writing",
                       snapshot_date |-> d, signals |-> SignalsCall.cached,
                       next |-> 1, before |-> snapshots]
    /\ UNCHANGED <<snapshots, last, nSnap, nEdit, cd_signals,
                 cd_conflicts, alerts, today, regime_history, audit_log, audit_clock,
                 nLogged, reader, evaluators,
                 signals_file, load_from_db,
                 db_signals>>

\* one iteration of the loop: _snapshots[snapshot_key] = snapshot
WriteSnapshot ==
    /\ writer.pc = "writing"
    /\ snapshots' = DictSet(snapshots,
                            SignalSnapshot(writer.signals[writer.next],
                                           writer.snapshot_date))
    /\ writer' = [writer EXCEPT
                     !.next = @ + 1,
                     !.pc = IF writer.next = Len(writer.signals) THEN "done" ELSE "writing"]
    /\ UNCHANGED <<cached_signals, last, nSnap, nEdit, cd_signals, cd_conflicts,
                 alerts, today, regime_history, audit_log, audit_clock, nLogged,
                 reader, evaluators,
                 signals_file, cached_file_mtime, load_from_db,
                 db_signals>>

\* get_signals_at_date(d) up to the loop: the iterator over _snapshots.items()
\* remembers the size of the dict
BeginAsOf(d) ==
    /\ reader = Idle
    /\ reader' = [pc |-> "reading", target_date |-> d, next |-> 1,
                  size |-> Len(snapshots), signal_snapshots |-> << >>,
                  raised |-> FALSE, ret |-> << >>]
    /\ UNCHANGED <<cached_signals, snapshots, last, nSnap, nEdit, cd_signals,
                 cd_conflicts, alerts, today, regime_history, audit_log, audit_clock,
                 nLogged, writer, evaluators,
                 signals_file, cached_file_mtime, load_from_db,
                 db_signals>>

\* the rest of get_signals_at_date once the loop is over
AsOfResult(signal_snapshots, live) ==
    LET signals == [i \in 1..Len(signal_snapshots) |-> signal_snapshots[i].signal]
    IN IF signals = << >> THEN live ELSE signals

\* one step of the iterator: RuntimeError when the dict has changed size, else
\* the loop body on the next item, else the end of the loop and the return
ReadSnapshot ==
    /\ reader.pc = "reading"
    /\ reader' =
          IF Len(snapshots) # reader.size
          THEN [reader EXCEPT !.pc = "done", !.raised = TRUE]
          ELSE IF reader.next <= Len(snapshots)
          THEN [reader EXCEPT
                   !.next = @ + 1,
                   !.signal_snapshots =
                       LatestPerSignal(<<snapshots[reader.next]>>, reader.target_date, @)]
          ELSE IF reader.signal_snapshots = << >> /\ ProviderRaises
          THEN [reader EXCEPT !.pc = "done", !.raised = TRUE]
          ELSE [reader EXCEPT
                   !.pc = "done",
                   !.ret = AsOfResult(reader.signal_snapshots, SignalsCall.cached)]
    /\ IF /\ Len(snapshots) = reader.size
          /\ reader.next > Len(snapshots)
          /\ reader.signal_snapshots = << >>
       THEN GetAllSignals
       ELSE UNCHANGED <<cached_signals, cached_file_mtime>>
    /\ UNCHANGED <<snapshots, last, nSnap, nEdit, cd_signals,
                 cd_conflicts, alerts, today, regime_history, audit_log, audit_clock,
                 nLogged, writer, evaluators,
                 signals_file, load_from_db,
                 db_signals>>

NextRace ==
    \/ Quiet /\ RowEvent
          /\ \E id \in SignalIds, dir \in Directions, conf \in Confidences :
                UpdateSignal(id, dir, conf)
    \/ Quiet /\ RowEvent /\ \E id \in SignalIds : DeleteSignalEndpoint(id, 1)
    \/ Quiet /\ Pending /\ ReloadSignals
    \/ Quiet /\ \E d \in Dates : CreateDailySnapshot(d)
    \/ \E d \in Dates : BeginSnapshot(d)
    \/ WriteSnapshot
    \/ \E d \in Dates : BeginAsOf(d)
    \/ ReadSnapshot

SpecRace == InitRace /\ [][NextRace]_vars

\* C22: an as_of(d') that runs while snapshot(d) writes its entries, d' >= d,
\* returns what it would return on the store as it was before the snapshot call
\* or on the store as it is after it, never a mix of the two.
C22_StableView ==
    (/\ reader.pc = "done"
     /\ writer # Idle
     /\ reader.target_date >= writer.snapshot_date)
    => /\ ~reader.raised
       /\ reader.ret \in
             {get_signals_at_date(writer.before, cached_signals, reader.target_date),
              get_signals_at_date(StoreSnapshots(writer.before, writer.signals,
                                                 writer.snapshot_date),
                                  cached_signals, reader.target_date)}

----------------------------------------------------------------------------
(* evaluate_alert on one alert in several threads *)

MaxEvaluators == 2     \* calls of evaluate_alert in progress at once

\* every call works on the one Alert object stored in _alerts: it reads enabled,
\* last_triggered and the signal state, decides, and only then, when it fires,
\* assigns last_triggered and returns; another thread can run in between

\* the only alert of the table is created while no evaluation is in progress
CreateOnlyAlert(k) == alerts = << >> /\ evaluators = << >> /\ CreateAlert(k)

\* evaluate_alert(alert) from the enabled test to the decision
DecideAlert(i) ==
    /\ i \in 1..Len(alerts)
    /\ Len(evaluators) < MaxEvaluators
    /\ evaluators' =
          Append(evaluators,
                 [pc |-> "decided", index |-> i,
                  result |-> evaluate_alert(alerts[i], SignalsCall, snapshots,
                                            regime_history, today)])
    /\ IF alerts[i].enabled THEN GetAllSignals
       ELSE UNCHANGED <<cached_signals, cached_file_mtime>>
    /\ UNCHANGED <<snapshots, last, nSnap, nEdit, cd_signals,
                 cd_conflicts, alerts, today, regime_history, audit_log, audit_clock,
                 nLogged, writer, reader,
                 signals_file, load_from_db,
                 db_signals>>

\* the rest of the call: alert.last_triggered = date.today() when it fires, and
\* the return
ReturnAlert(p) ==
    /\ p \in 1..Len(evaluators)
    /\ evaluators[p].pc = "decided"
    /\ alerts' =
          IF evaluators[p].result.ret.triggered
          THEN [alerts EXCEPT ![evaluators[p].index].last_triggered =
                                  evaluators[p].result.alert.last_triggered]
          ELSE alerts
    /\ evaluators' = [evaluators EXCEPT ![p].pc = "done"]
    /\ UNCHANGED <<cached_signals, snapshots, last, nSnap, nEdit, cd_signals,
                 cd_conflicts, today, regime_history, audit_log, audit_clock,
                 nLogged, writer, reader,
                 signals_file, cached_file_mtime, load_from_db,
                 db_signals>>

NextEvaluators ==
    \/ \E k \in 1..Len(AlertPool) : CreateOnlyAlert(k)
    \/ evaluators = << >> /\ AlertEvent
          /\ \E d \in {AlertDay - 1, AlertDay} : SnapshotForAlerts(d)
    \/ evaluators = << >> /\ AlertEvent /\ DatabaseRead /\ ~Pending
          /\ \E c \in RecomputeChoices : RecomputeSignal(c[1], c[2])
    \/ evaluators = << >> /\ Pending /\ ReloadSignals
    \/ evaluators = << >> /\ AlertEvent
          /\ \E c \in FileChoices : EditSignalsFile(FileWith(c[1], c[2]))
    \/ \E i \in 1..MaxAlerts : DecideAlert(i)
    \/ \E p \in 1..MaxEvaluators : ReturnAlert(p)

SpecEvaluators == InitAlerts /\ [][NextEvaluators]_vars

\* C21: of two calls of evaluate_alert on the same alert that run at the same
\* time, at most one returns a trigger payload, and last_triggered is today
\* once either of them has fired.
C21_AtMostOneFires ==
    \A p, q \in 1..Len(evaluators) :
        (/\ p # q
         /\ evaluators[p].index = evaluators[q].index
         /\ evaluators[p].pc = "done"
         /\ evaluators[q].pc = "done")
        => /\ ~(evaluators[p].result.ret.triggered /\ evaluators[q].result.ret.triggered)
           /\ evaluators[p].result.ret.triggered
                 => alerts[evaluators[p].index].last_triggered = today

====
